---- MODULE Spec2Model ----
(***************************************************************************)
(* AfriCourse AI: the view state of src/App.tsx and the request wrappers   *)
(* of src/services/geminiService.ts as a state machine.                    *)
(*                                                                         *)
(* Every React state field is a variable.  An async handler is split at    *)
(* its awaits: the part before the first await is one action (the click),  *)
(* each continuation is one action (the settling of the awaited promise).  *)
(* A handler instance waiting at an await is a record in the handler's     *)
(* list of outstanding calls; the record holds what the closure captured.  *)
(*                                                                         *)
(* Strings that the code inspects (topic, chatInput) are sequences of      *)
(* characters; opaque texts are TLA+ strings.  A nullable value is a       *)
(* sequence of length at most one: <<>> is null, <<x>> is x.  A JavaScript *)
(* object is a record with a field "keys", the set of its own properties;  *)
(* a property not in keys reads as undefined.  Lesson indices are 0-based  *)
(* as in the code; lesson idx is element idx + 1 of the sequence.          *)
(*                                                                         *)
(* A render that throws unmounts the whole tree (there is no error         *)
(* boundary): no control is on screen any more and React drops every       *)
(* later state update, while promises, timers and audio sources go on.     *)
(*                                                                         *)
(* Not modelled: isDarkMode, isChatOpen, isCopied (pure view state: the    *)
(* chat panel is one click away whenever the application is on screen),    *)
(* localStorage.                                                           *)
(***************************************************************************)
EXTENDS Integers, Sequences, FiniteSets, TLC

\* ------------------------------------------------------------------ bounds
MaxGenCalls == 2
MaxExpandCalls == 2
MaxChatCalls == 2
MaxChat == 6
MaxNarrCalls == 2
MaxSources == 2
MaxAnalyzeCalls == 1
MaxPolls == 2
MaxPcmLen == 6
MaxSaves == 3
MaxIssued == 3
MaxAppCost == 4
MaxTopicLen == 2

\* --------------------------------------------------------------- nullables
Null == <<>>
Some(x) == <<x>>
IsNull(o) == o = <<>>
Val(o) == o[1]

\* ----------------------------------------------------------------- strings
SPACE == " "
Topics == {<<>>, <<SPACE>>, <<SPACE, "a">>}
ChatInputs == {<<>>, <<SPACE>>, <<"q", SPACE>>}

\* A blank test that forgets white space: if (!topic) return.
TrimNone(s) == s

RECURSIVE TrimStart(_)
TrimStart(s) == IF s # <<>> /\ Head(s) = SPACE THEN TrimStart(Tail(s)) ELSE s

RECURSIVE TrimEnd(_)
TrimEnd(s) ==
    IF s # <<>> /\ s[Len(s)] = SPACE THEN TrimEnd(SubSeq(s, 1, Len(s) - 1)) ELSE s

Trim(s) == TrimEnd(TrimStart(s))

\* JavaScript truthiness of a string: the empty string is falsy.
Truthy(s) == s # <<>>

Depths == {"express", "standard", "deep", "certified"}
DepthButtons == {"express", "standard", "deep"}
\* The year buttons of the certified tab.
Years == {1, 2, 3, 4}

\* ------------------------------------------------------------ JSON objects
UNDEF == "undefined"
LessonKeys == {"title", "content", "keyTakeaways", "sources"}
CourseKeys == {"topic", "summary", "lessons"}
PathwayKeys == {"title", "duration", "roadmap"}

MkLesson(t) ==
    [keys |-> LessonKeys, title |-> t, content |-> "content of " \o t,
     keyTakeaways |-> <<"k">>, sources |-> <<>>, expandedContent |-> UNDEF]

\* An array hole, and the object {} : no own property.
EmptyLesson ==
    [keys |-> {}, title |-> UNDEF, content |-> UNDEF,
     keyTakeaways |-> <<>>, sources |-> <<>>, expandedContent |-> UNDEF]

CourseA ==
    [keys |-> CourseKeys, topic |-> <<"A">>, summary |-> "sA",
     lessons |-> <<MkLesson("A1"), MkLesson("A2")>>]
CourseB ==
    [keys |-> CourseKeys, topic |-> <<"B">>, summary |-> "sB",
     lessons |-> <<MkLesson("B1")>>]
CourseC ==
    [keys |-> CourseKeys, topic |-> <<"C">>, summary |-> "sC",
     lessons |-> <<MkLesson("C1")>>]
EmptyCourse ==
    [keys |-> {}, topic |-> <<>>, summary |-> UNDEF, lessons |-> <<>>]

MkPathway(y) ==
    [keys |-> PathwayKeys, title |-> "P", duration |-> y, roadmap |-> y]
EmptyPathway ==
    [keys |-> {}, title |-> UNDEF, duration |-> 0, roadmap |-> 0]

\* The response texts of the model backend.  "" is an empty response.text,
\* "garbage" is text that is not JSON.
CourseTexts == {"", "jsonA", "jsonB", "garbage"}
PathwayTexts == {"", "json", "garbage"}

ParsesAsJson(text) == text # "garbage"

JsonParseCourse(text) ==
    CASE text = "jsonA" -> CourseA
      [] text = "jsonB" -> CourseB
      [] text = "jsonC" -> CourseC
      [] OTHER -> EmptyCourse

JsonParsePathway(text, y) ==
    IF text = "json" THEN MkPathway(y) ELSE EmptyPathway

\* response.text || '{}'
OrEmptyObject(text) == IF text = "" THEN "{}" ELSE text

\* --------------------------------------------------------------- messages
ErrCourse == "Failed to generate course."
ErrPathway == "Failed to generate pathway."
ErrExpand == "Failed to expand content."
ErrNarration == "Failed to generate narration."
ErrVideo == "Failed to generate video."

VARIABLES
    \* AppState (src/types.ts)
    isGenerating, course, certifiedPathway, completedLessons, videoUrl,
    isVideoGenerating, isAudioGenerating, isAnalyzingVideo, videoAnalysis,
    error, theme, chatMessages, isChatLoading, videoOrientation,
    videoResolution, isExpandingLesson, savedCourses,
    \* the other hooks of App
    topic, depth, chatInput, currentAudio, audioSourceRef, activeTab,
    \* handler instances waiting at an await
    genCalls, expandCalls, chatCalls, narrCalls, analyzeCalls, video,
    \* the audio sources created so far: source i is sources[i]
    sources,
    \* the last events of generateCourseVideo and its poll count
    videoLog, polls,
    \* crypto.randomUUID
    nextId,
    \* the PCM decoder's input and output
    pcmIn, pcmOut,
    \* the share link on the clipboard, the link the page was opened with
    \* (its query string) and the 500 ms timer of the shared-link effect
    clipboard, pageUrl, autoClick,
    \* history: the years of the pathway request issued last, the saved
    \* course on screen since handleLoadSaved, and the topic and depth the
    \* link on the clipboard was made from
    lastAsked, loadedCourse, sharedFrom,
    \* the number of handler calls so far, for the specifications that
    \* bound it
    issued,
    \* the number of clicks so far on the controls that start no request,
    \* for the specification that bounds it
    clicks

appState ==
    <<isGenerating, course, certifiedPathway, completedLessons, videoUrl,
      isVideoGenerating, isAudioGenerating, isAnalyzingVideo, videoAnalysis,
      error, theme, chatMessages, isChatLoading, videoOrientation,
      videoResolution, isExpandingLesson, savedCourses>>
hookState ==
    <<topic, depth, chatInput, currentAudio, audioSourceRef, activeTab>>
callState == <<genCalls, expandCalls, chatCalls, narrCalls, analyzeCalls, video>>
shareState == <<clipboard, pageUrl, autoClick>>
histState == <<lastAsked, loadedCourse, sharedFrom>>
\* Everything outside React state and the handler instances, without the
\* history.
auxCore == <<sources, videoLog, polls, nextId, pcmIn, pcmOut>>
auxRest == <<auxCore, shareState>>
auxState == <<auxRest, histState>>
progVars == <<appState, hookState, callState, auxState>>
vars == <<progVars, issued, clicks>>

\* Remove element i of a sequence.
RemoveAt(s, i) == SubSeq(s, 1, i - 1) \o SubSeq(s, i + 1, Len(s))

VideoIdle == [pc |-> "idle", done |-> FALSE]

Init ==
    /\ isGenerating = FALSE
    /\ course = Null
    /\ certifiedPathway = Null
    /\ completedLessons = <<>>
    /\ videoUrl = Null
    /\ isVideoGenerating = FALSE
    /\ isAudioGenerating = FALSE
    /\ isAnalyzingVideo = FALSE
    /\ videoAnalysis = Null
    /\ error = Null
    /\ theme = "blue"
    /\ chatMessages = <<>>
    /\ isChatLoading = FALSE
    /\ videoOrientation = "16:9"
    /\ videoResolution = "720p"
    /\ isExpandingLesson = Null
    /\ savedCourses = <<>>
    /\ topic = <<>>
    /\ depth = "express"
    /\ chatInput = <<>>
    /\ currentAudio = Null
    /\ audioSourceRef = Null
    /\ genCalls = <<>>
    /\ expandCalls = <<>>
    /\ chatCalls = <<>>
    /\ narrCalls = <<>>
    /\ analyzeCalls = <<>>
    /\ video = VideoIdle
    /\ sources = <<>>
    /\ videoLog = <<>>
    /\ polls = 0
    /\ nextId = 1
    /\ pcmIn = <<>>
    /\ pcmOut = Null
    /\ issued = 0
    /\ clipboard = Null
    /\ pageUrl = <<>>
    /\ autoClick = "none"
    /\ lastAsked = Null
    /\ loadedCourse = Null
    /\ sharedFrom = Null
    /\ activeTab = "learn"
    /\ clicks = 0

\* ------------------------------------------------------------ the view
\* The learn tab shows the input form when there is no course and nothing
\* is generating, a spinner while generating, and the course otherwise.
CourseShown == ~IsNull(course) /\ ~isGenerating

Tabs == {"learn", "analyze", "certified", "library"}

\* state.course.lessons.map(...) and lesson.keyTakeaways.map(...) return on
\* a course that has lessons, all of them (array holes are skipped) with
\* keyTakeaways.
LessonsRender(c) ==
    /\ "lessons" \in c.keys
    /\ \A i \in 1..Len(c.lessons) :
          LET l == c.lessons[i]
          IN  l.keys # {} => "keyTakeaways" \in l.keys

\* The render of App throws: the memo of progressPercentage reads
\* state.course.lessons.length on every render, the learn tab maps the
\* lessons and their keyTakeaways when it shows the course, the certified
\* tab maps the roadmap of a pathway that is not null.
RenderThrows ==
    \/ ~IsNull(course) /\ "lessons" \notin Val(course).keys
    \/ activeTab = "learn" /\ CourseShown /\ ~LessonsRender(Val(course))
    \/ /\ activeTab = "certified"
       /\ ~IsNull(certifiedPathway)
       /\ "roadmap" \notin Val(certifiedPathway).keys

\* App is on screen.  A render that throws leaves React state as it is for
\* good, so the state itself tells whether the tree was unmounted.
Mounted == ~RenderThrows

\* setState of a handler or of a continuation: React drops the update of a
\* component that is not mounted.
SetState(old, new) == IF Mounted THEN new ELSE old

FormShown ==
    Mounted /\ activeTab = "learn" /\ IsNull(course) /\ ~isGenerating

\* The course view of the learn tab is on screen.
CourseRenders == Mounted /\ activeTab = "learn" /\ CourseShown

\* The lessons the view draws: Array.prototype.map skips holes.
LessonIdxShown ==
    IF CourseRenders
    THEN {i \in 0..(Len(Val(course).lessons) - 1) :
             Val(course).lessons[i + 1].keys # {}}
    ELSE {}

\* ------------------------------------------------------ plain UI actions
\* The topic field of the learn form and the one of the certified tab.
SetTopic(t) ==
    /\ FormShown \/ (Mounted /\ activeTab = "certified")
    /\ topic' = t
    /\ UNCHANGED <<appState, depth, chatInput, currentAudio, audioSourceRef,
                   activeTab, callState, auxState>>

SetDepth(d) ==
    /\ FormShown
    /\ depth' = d
    /\ UNCHANGED <<appState, topic, chatInput, currentAudio, audioSourceRef,
                   activeTab, callState, auxState>>

\* The theme buttons of the header.
SetTheme(t) ==
    /\ Mounted
    /\ theme' = t
    /\ UNCHANGED <<isGenerating, course, certifiedPathway, completedLessons,
                   videoUrl, isVideoGenerating, isAudioGenerating,
                   isAnalyzingVideo, videoAnalysis, error, chatMessages,
                   isChatLoading, videoOrientation, videoResolution,
                   isExpandingLesson, savedCourses,
                   hookState, callState, auxState>>

\* The logo of the header.
HomeClick ==
    /\ Mounted
    /\ course' = Null
    /\ certifiedPathway' = Null
    /\ activeTab' = "learn"
    /\ loadedCourse' = Null
    /\ UNCHANGED <<isGenerating, completedLessons, videoUrl,
                   isVideoGenerating, isAudioGenerating, isAnalyzingVideo,
                   videoAnalysis, error, theme, chatMessages, isChatLoading,
                   videoOrientation, videoResolution, isExpandingLesson,
                   savedCourses, topic, depth, chatInput, currentAudio,
                   audioSourceRef, callState, auxRest,
                   lastAsked, sharedFrom>>

\* A tab button of the header (the "Download knowledge" button of the
\* empty library does the same for the learn tab).
SetActiveTab(t) ==
    /\ Mounted
    /\ activeTab' = t
    /\ UNCHANGED <<appState, topic, depth, chatInput, currentAudio,
                   audioSourceRef, callState, auxState>>

\* ------------------------------------------------------- handleGenerate
\* handleGenerate that also drops the video of the previous course.
HandleGenerateResetsVideo ==
    /\ FormShown
    /\ IF ~Truthy(Trim(topic))
       THEN UNCHANGED progVars
       ELSE /\ Len(genCalls) < MaxGenCalls
            /\ isGenerating' = TRUE
            /\ error' = Null
            /\ course' = Null
            /\ certifiedPathway' = Null
            /\ completedLessons' = <<>>
            /\ videoUrl' = Null
            /\ genCalls' = Append(genCalls,
                   [kind |-> "course", stage |-> "call", topic |-> topic,
                    depth |-> depth, years |-> 0])
            /\ loadedCourse' = Null
            /\ UNCHANGED <<isVideoGenerating, isAudioGenerating,
                           isAnalyzingVideo, videoAnalysis, theme,
                           chatMessages, isChatLoading, videoOrientation,
                           videoResolution, isExpandingLesson, savedCourses,
                           hookState, expandCalls, chatCalls, narrCalls,
                           analyzeCalls, video, auxRest,
                           lastAsked, sharedFrom>>

\* handleGenerate past its guard, up to the await of
\* generateCourse(topic, depth).
GenerateSubmit ==
    /\ Len(genCalls) < MaxGenCalls
    /\ isGenerating' = TRUE
    /\ error' = Null
    /\ course' = Null
    /\ certifiedPathway' = Null
    /\ completedLessons' = <<>>
    /\ genCalls' = Append(genCalls,
           [kind |-> "course", stage |-> "call", topic |-> topic,
            depth |-> depth, years |-> 0])
    /\ loadedCourse' = Null
    /\ UNCHANGED <<videoUrl, isVideoGenerating, isAudioGenerating,
                   isAnalyzingVideo, videoAnalysis, theme,
                   chatMessages, isChatLoading, videoOrientation,
                   videoResolution, isExpandingLesson, savedCourses,
                   hookState, expandCalls, chatCalls, narrCalls,
                   analyzeCalls, video, auxCore, lastAsked, sharedFrom>>

\* A click on main-generate-btn or Enter in the topic field.
HandleGenerate ==
    /\ FormShown
    /\ IF ~Truthy(Trim(topic))
       THEN UNCHANGED progVars
       ELSE GenerateSubmit /\ UNCHANGED shareState

\* generateCourse resolves: JSON.parse(response.text || '{}').
GenerateResolves(i, text) ==
    /\ i \in 1..Len(genCalls)
    /\ genCalls[i].kind = "course"
    /\ ParsesAsJson(OrEmptyObject(text))
    /\ course' = SetState(course, Some(JsonParseCourse(OrEmptyObject(text))))
    /\ isGenerating' = SetState(isGenerating, FALSE)
    /\ genCalls' = RemoveAt(genCalls, i)
    /\ UNCHANGED <<certifiedPathway, completedLessons, videoUrl,
                   isVideoGenerating, isAudioGenerating, isAnalyzingVideo,
                   videoAnalysis, error, theme, chatMessages, isChatLoading,
                   videoOrientation, videoResolution, isExpandingLesson,
                   savedCourses, hookState, expandCalls, chatCalls, narrCalls,
                   analyzeCalls, video, auxState>>

\* The catch block with error: err.message || 'Failed to generate course.'
GenerateRejectsErrMessage(i) ==
    /\ i \in 1..Len(genCalls)
    /\ genCalls[i].kind = "course"
    /\ isGenerating' = SetState(isGenerating, FALSE)
    /\ error' = SetState(error, Some("Failed to fetch"))
    /\ genCalls' = RemoveAt(genCalls, i)
    /\ UNCHANGED <<course, certifiedPathway, completedLessons, videoUrl,
                   isVideoGenerating, isAudioGenerating, isAnalyzingVideo,
                   videoAnalysis, theme, chatMessages, isChatLoading,
                   videoOrientation, videoResolution, isExpandingLesson,
                   savedCourses, hookState, expandCalls, chatCalls, narrCalls,
                   analyzeCalls, video, auxState>>

\* generateCourse rejects: the request fails or JSON.parse throws.
GenerateRejects(i) ==
    /\ i \in 1..Len(genCalls)
    /\ genCalls[i].kind = "course"
    /\ isGenerating' = SetState(isGenerating, FALSE)
    /\ error' = SetState(error, Some(ErrCourse))
    /\ genCalls' = RemoveAt(genCalls, i)
    /\ UNCHANGED <<course, certifiedPathway, completedLessons, videoUrl,
                   isVideoGenerating, isAudioGenerating, isAnalyzingVideo,
                   videoAnalysis, theme, chatMessages, isChatLoading,
                   videoOrientation, videoResolution, isExpandingLesson,
                   savedCourses, hookState, expandCalls, chatCalls, narrCalls,
                   analyzeCalls, video, auxState>>

\* ---------------------------------------------- handleGenerateCertified
\* The click, up to the await of aistudio.hasSelectedApiKey().
HandleGenerateCertified(years) ==
    /\ Mounted
    /\ activeTab = "certified"
    /\ IF ~Truthy(Trim(topic))
       THEN UNCHANGED progVars
       ELSE /\ Len(genCalls) < MaxGenCalls
            /\ genCalls' = Append(genCalls,
                   [kind |-> "pathway", stage |-> "key", topic |-> topic,
                    depth |-> depth, years |-> years])
            /\ UNCHANGED <<appState, hookState, expandCalls, chatCalls,
                           narrCalls, analyzeCalls, video, auxState>>

\* setState(isGenerating: true, error: null, certifiedPathway: null) and the
\* call of generateCertifiedPathway(topic, years).
StartPathwayCall(i) ==
    /\ isGenerating' = SetState(isGenerating, TRUE)
    /\ error' = SetState(error, Null)
    /\ certifiedPathway' = SetState(certifiedPathway, Null)
    /\ genCalls' = [genCalls EXCEPT ![i].stage = "call"]
    /\ lastAsked' = Some(genCalls[i].years)
    /\ UNCHANGED <<course, completedLessons, videoUrl, isVideoGenerating,
                   isAudioGenerating, isAnalyzingVideo, videoAnalysis, theme,
                   chatMessages, isChatLoading, videoOrientation,
                   videoResolution, isExpandingLesson, savedCourses,
                   hookState, expandCalls, chatCalls, narrCalls,
                   analyzeCalls, video, auxRest, loadedCourse, sharedFrom>>

\* hasSelectedApiKey() resolves.
CertifiedKeyChecked(i, hasKey) ==
    /\ i \in 1..Len(genCalls)
    /\ genCalls[i].kind = "pathway"
    /\ genCalls[i].stage = "key"
    /\ IF hasKey
       THEN StartPathwayCall(i)
       ELSE /\ genCalls' = [genCalls EXCEPT ![i].stage = "open"]
            /\ UNCHANGED <<appState, hookState, expandCalls, chatCalls,
                           narrCalls, analyzeCalls, video, auxState>>

\* openSelectKey() resolves.
CertifiedKeyOpened(i) ==
    /\ i \in 1..Len(genCalls)
    /\ genCalls[i].kind = "pathway"
    /\ genCalls[i].stage = "open"
    /\ StartPathwayCall(i)

\* hasSelectedApiKey() or openSelectKey() rejects: both awaits are outside
\* the try block, the handler ends there.
CertifiedKeyRejects(i) ==
    /\ i \in 1..Len(genCalls)
    /\ genCalls[i].kind = "pathway"
    /\ genCalls[i].stage \in {"key", "open"}
    /\ genCalls' = RemoveAt(genCalls, i)
    /\ UNCHANGED <<appState, hookState, expandCalls, chatCalls, narrCalls,
                   analyzeCalls, video, auxState>>

\* generateCertifiedPathway resolves: JSON.parse(response.text || '{}').
PathwayResolves(i, text) ==
    /\ i \in 1..Len(genCalls)
    /\ genCalls[i].kind = "pathway"
    /\ genCalls[i].stage = "call"
    /\ ParsesAsJson(OrEmptyObject(text))
    /\ certifiedPathway' =
           SetState(certifiedPathway,
               Some(JsonParsePathway(OrEmptyObject(text), genCalls[i].years)))
    /\ isGenerating' = SetState(isGenerating, FALSE)
    /\ genCalls' = RemoveAt(genCalls, i)
    /\ UNCHANGED <<course, completedLessons, videoUrl, isVideoGenerating,
                   isAudioGenerating, isAnalyzingVideo, videoAnalysis, error,
                   theme, chatMessages, isChatLoading, videoOrientation,
                   videoResolution, isExpandingLesson, savedCourses,
                   hookState, expandCalls, chatCalls, narrCalls,
                   analyzeCalls, video, auxState>>

PathwayRejects(i) ==
    /\ i \in 1..Len(genCalls)
    /\ genCalls[i].kind = "pathway"
    /\ genCalls[i].stage = "call"
    /\ isGenerating' = SetState(isGenerating, FALSE)
    /\ error' = SetState(error, Some(ErrPathway))
    /\ genCalls' = RemoveAt(genCalls, i)
    /\ lastAsked' = Null
    /\ UNCHANGED <<course, certifiedPathway, completedLessons, videoUrl,
                   isVideoGenerating, isAudioGenerating, isAnalyzingVideo,
                   videoAnalysis, theme, chatMessages, isChatLoading,
                   videoOrientation, videoResolution, isExpandingLesson,
                   savedCourses, hookState, expandCalls, chatCalls, narrCalls,
                   analyzeCalls, video, auxRest, loadedCourse, sharedFrom>>

\* ------------------------------------------------------------ the library
\* A save that keeps the older entry of the same topic:
\* updated = [newSaved, ...state.savedCourses].
HandleSaveKeepsOld ==
    IF IsNull(course)
    THEN UNCHANGED progVars
    ELSE /\ CourseRenders
         /\ nextId <= MaxSaves
         /\ savedCourses' =
                <<[id |-> nextId, content |-> Val(course), depth |-> depth]>>
                \o savedCourses
         /\ nextId' = nextId + 1
         /\ UNCHANGED <<isGenerating, course, certifiedPathway,
                        completedLessons, videoUrl, isVideoGenerating,
                        isAudioGenerating, isAnalyzingVideo, videoAnalysis,
                        error, theme, chatMessages, isChatLoading,
                        videoOrientation, videoResolution, isExpandingLesson,
                        hookState, callState, sources, videoLog, polls,
                        pcmIn, pcmOut, shareState, histState>>

\* const updated = [newSaved, ...savedCourses.filter(other topics)]; the
\* savedAt time stamp is not modelled.
HandleSaveForOffline ==
    IF IsNull(course)
    THEN UNCHANGED progVars
    ELSE /\ CourseRenders
         /\ nextId <= MaxSaves
         /\ LET newSaved == [id |-> nextId, content |-> Val(course),
                             depth |-> depth]
                kept == SelectSeq(savedCourses,
                            LAMBDA c : c.content.topic # Val(course).topic)
            IN  savedCourses' = <<newSaved>> \o kept
         /\ nextId' = nextId + 1
         /\ UNCHANGED <<isGenerating, course, certifiedPathway,
                        completedLessons, videoUrl, isVideoGenerating,
                        isAudioGenerating, isAnalyzingVideo, videoAnalysis,
                        error, theme, chatMessages, isChatLoading,
                        videoOrientation, videoResolution, isExpandingLesson,
                        hookState, callState, sources, videoLog, polls,
                        pcmIn, pcmOut,
                   shareState, histState>>

\* The delete button of a card of the library tab.
HandleDeleteSaved(id) ==
    /\ Mounted
    /\ activeTab = "library"
    /\ \E k \in 1..Len(savedCourses) : savedCourses[k].id = id
    /\ savedCourses' = SelectSeq(savedCourses, LAMBDA c : c.id # id)
    /\ UNCHANGED <<isGenerating, course, certifiedPathway, completedLessons,
                   videoUrl, isVideoGenerating, isAudioGenerating,
                   isAnalyzingVideo, videoAnalysis, error, theme,
                   chatMessages, isChatLoading, videoOrientation,
                   videoResolution, isExpandingLesson,
                   hookState, callState, auxState>>

\* A click on a card of the library tab.
HandleLoadSaved(k) ==
    /\ Mounted
    /\ activeTab = "library"
    /\ k \in 1..Len(savedCourses)
    /\ course' = Some(savedCourses[k].content)
    /\ completedLessons' = <<>>
    /\ certifiedPathway' = Null
    /\ error' = Null
    /\ topic' = savedCourses[k].content.topic
    /\ depth' = savedCourses[k].depth
    /\ activeTab' = "learn"
    /\ loadedCourse' = Some(savedCourses[k].content)
    /\ UNCHANGED <<isGenerating, videoUrl, isVideoGenerating,
                   isAudioGenerating, isAnalyzingVideo, videoAnalysis, theme,
                   chatMessages, isChatLoading, videoOrientation,
                   videoResolution, isExpandingLesson, savedCourses,
                   chatInput, currentAudio, audioSourceRef,
                   callState, auxRest, lastAsked, sharedFrom>>

\* The "Mark Done" button of lesson idx.
ToggleLessonCompletion(idx) ==
    /\ idx \in LessonIdxShown
    /\ LET isDone == \E k \in 1..Len(completedLessons) : completedLessons[k] = idx
       IN  completedLessons' =
               IF isDone
               THEN SelectSeq(completedLessons, LAMBDA i : i # idx)
               ELSE Append(completedLessons, idx)
    /\ UNCHANGED <<isGenerating, course, certifiedPathway, videoUrl,
                   isVideoGenerating, isAudioGenerating, isAnalyzingVideo,
                   videoAnalysis, error, theme, chatMessages, isChatLoading,
                   videoOrientation, videoResolution, isExpandingLesson,
                   savedCourses, hookState, callState, auxState>>

\* ------------------------------------------------------- the share link
\* The characters of a topic in a share link: a letter and the characters
\* the query string gives a meaning to.
ShareChars == {SPACE, "a", "&", "+", "%", "="}
ShareTopics == UNION {[1..n -> ShareChars] : n \in 0..MaxTopicLen}

TopicName == <<"t", "o", "p", "i", "c">>
DepthName == <<"d", "e", "p", "t", "h">>

\* The characters of a depth.
DepthChars(d) ==
    CASE d = "express" -> <<"e", "x", "p", "r", "e", "s", "s">>
      [] d = "standard" -> <<"s", "t", "a", "n", "d", "a", "r", "d">>
      [] d = "deep" -> <<"d", "e", "e", "p">>
      [] d = "certified" ->
             <<"c", "e", "r", "t", "i", "f", "i", "e", "d">>

\* A link built by string concatenation: '?topic=' + topic + '&depth=' + depth.
EncodeCharRaw(c) == <<c>>

\* The application/x-www-form-urlencoded serializer of URLSearchParams: a
\* space becomes +, letters stay, every other character is percent-encoded.
EncodeChar(c) ==
    CASE c = SPACE -> <<"+">>
      [] c = "&" -> <<"%", "2", "6">>
      [] c = "+" -> <<"%", "2", "B">>
      [] c = "%" -> <<"%", "2", "5">>
      [] c = "=" -> <<"%", "3", "D">>
      [] OTHER -> <<c>>

RECURSIVE UrlEncode(_)
UrlEncode(s) ==
    IF s = <<>> THEN <<>> ELSE EncodeChar(Head(s)) \o UrlEncode(Tail(s))

\* The characters of the percent codes (those the serializer emits for
\* ShareChars, and %20).
PercentCodes ==
    {<<"2", "0">>, <<"2", "6">>, <<"2", "B">>, <<"2", "5">>, <<"3", "D">>}
PercentChar(code) ==
    CASE code = <<"2", "0">> -> SPACE
      [] code = <<"2", "6">> -> "&"
      [] code = <<"2", "B">> -> "+"
      [] code = <<"2", "5">> -> "%"
      [] code = <<"3", "D">> -> "="

\* The parser's decoding of a name or a value: + is a space, %XY is the
\* character of code XY, a % that starts no code stays.
RECURSIVE UrlDecode(_)
UrlDecode(s) ==
    IF s = <<>> THEN <<>>
    ELSE IF Head(s) = "+" THEN <<SPACE>> \o UrlDecode(Tail(s))
    ELSE IF Head(s) = "%" /\ Len(s) >= 3 /\ <<s[2], s[3]>> \in PercentCodes
         THEN <<PercentChar(<<s[2], s[3]>>)>> \o UrlDecode(SubSeq(s, 4, Len(s)))
    ELSE <<Head(s)>> \o UrlDecode(Tail(s))

\* searchParams.set(name, value) on a list of <<name, value>> pairs: the
\* first pair of that name gets the value and every later pair of that name
\* is removed, or a pair is appended.
SearchParamsSet(pairs, name, value) ==
    IF \E k \in 1..Len(pairs) : pairs[k][1] = name
    THEN LET first == CHOOSE k \in 1..Len(pairs) :
                 /\ pairs[k][1] = name
                 /\ \A j \in 1..(k - 1) : pairs[j][1] # name
         IN  SubSeq(pairs, 1, first - 1) \o <<(<<name, value>>)>>
             \o SelectSeq(SubSeq(pairs, first + 1, Len(pairs)),
                          LAMBDA pr : pr[1] # name)
    ELSE Append(pairs, <<name, value>>)

\* params.get(name): the value of the first pair of that name, or null.
SearchParamsGet(pairs, name) ==
    IF \E k \in 1..Len(pairs) : pairs[k][1] = name
    THEN LET first == CHOOSE k \in 1..Len(pairs) :
                 /\ pairs[k][1] = name
                 /\ \A j \in 1..(k - 1) : pairs[j][1] # name
         IN  Some(pairs[first][2])
    ELSE Null

\* searchParams.toString(): name=value joined by &.
RECURSIVE Serialize(_)
Serialize(pairs) ==
    IF pairs = <<>> THEN <<>>
    ELSE UrlEncode(Head(pairs)[1]) \o <<"=">> \o UrlEncode(Head(pairs)[2])
         \o (IF Len(pairs) > 1 THEN <<"&">> ELSE <<>>)
         \o Serialize(Tail(pairs))

\* The position of the first c in s, or 0.
IndexOf(s, c) ==
    IF \E k \in 1..Len(s) : s[k] = c
    THEN CHOOSE k \in 1..Len(s) : s[k] = c /\ \A j \in 1..(k - 1) : s[j] # c
    ELSE 0

\* new URLSearchParams(query): the query is split at every &, an empty piece
\* is skipped, a piece is split at its first =, both halves are decoded.
RECURSIVE ParseQuery(_)
ParseQuery(q) ==
    IF q = <<>> THEN <<>>
    ELSE LET amp == IndexOf(q, "&")
             piece == IF amp = 0 THEN q ELSE SubSeq(q, 1, amp - 1)
             rest == IF amp = 0 THEN <<>> ELSE SubSeq(q, amp + 1, Len(q))
             eq == IndexOf(piece, "=")
             name == IF eq = 0 THEN piece ELSE SubSeq(piece, 1, eq - 1)
             value == IF eq = 0 THEN <<>>
                      ELSE SubSeq(piece, eq + 1, Len(piece))
         IN  (IF piece = <<>> THEN <<>>
              ELSE <<(<<UrlDecode(name), UrlDecode(value)>>)>>)
             \o ParseQuery(rest)

\* The query string of shareUrl.toString().
ShareQuery(t, d) ==
    Serialize(SearchParamsSet(SearchParamsSet(<<>>, TopicName, t),
                              DepthName, DepthChars(d)))

\* The Share button of the course view: the link goes to the clipboard.
HandleShare ==
    /\ CourseRenders
    /\ clipboard' = Some(ShareQuery(topic, depth))
    /\ sharedFrom' = Some([topic |-> topic, depth |-> depth])
    /\ UNCHANGED <<appState, hookState, callState, auxCore, pageUrl,
                   autoClick, lastAsked, loadedCourse>>

\* The link on the clipboard is opened: a new page, whose state is the
\* initial one, runs the shared-link effect on its query string.  The
\* library is the one of the browser.
OpenSharedLink ==
    /\ ~IsNull(clipboard)
    /\ pageUrl' = Val(clipboard)
    /\ LET params == ParseQuery(Val(clipboard))
           sharedTopic == SearchParamsGet(params, TopicName)
           sharedDepth == SearchParamsGet(params, DepthName)
       IN  IF ~IsNull(sharedTopic) /\ Truthy(Val(sharedTopic))
           THEN /\ topic' = Val(sharedTopic)
                /\ depth' =
                       IF /\ ~IsNull(sharedDepth)
                          /\ Truthy(Val(sharedDepth))
                          /\ \E d \in Depths : DepthChars(d) = Val(sharedDepth)
                       THEN CHOOSE d \in Depths :
                                DepthChars(d) = Val(sharedDepth)
                       ELSE "express"
                /\ autoClick' = "pending"
           ELSE /\ topic' = <<>>
                /\ depth' = "express"
                /\ autoClick' = "none"
    /\ isGenerating' = FALSE
    /\ course' = Null
    /\ certifiedPathway' = Null
    /\ completedLessons' = <<>>
    /\ videoUrl' = Null
    /\ isVideoGenerating' = FALSE
    /\ isAudioGenerating' = FALSE
    /\ isAnalyzingVideo' = FALSE
    /\ videoAnalysis' = Null
    /\ error' = Null
    /\ theme' = "blue"
    /\ chatMessages' = <<>>
    /\ isChatLoading' = FALSE
    /\ videoOrientation' = "16:9"
    /\ videoResolution' = "720p"
    /\ isExpandingLesson' = Null
    /\ chatInput' = <<>>
    /\ currentAudio' = Null
    /\ audioSourceRef' = Null
    /\ activeTab' = "learn"
    /\ genCalls' = <<>>
    /\ expandCalls' = <<>>
    /\ chatCalls' = <<>>
    /\ narrCalls' = <<>>
    /\ analyzeCalls' = <<>>
    /\ video' = VideoIdle
    /\ sources' = <<>>
    /\ videoLog' = <<>>
    /\ polls' = 0
    /\ lastAsked' = Null
    /\ loadedCourse' = Null
    /\ UNCHANGED <<savedCourses, nextId, pcmIn, pcmOut, clipboard, sharedFrom>>

\* The 500 ms timer of the shared-link effect: main-generate-btn is
\* clicked if it is in the document; a disabled button ignores the click.
AutoClickFires ==
    /\ autoClick = "pending"
    /\ autoClick' = "fired"
    /\ UNCHANGED <<clipboard, pageUrl>>
    /\ IF FormShown /\ Truthy(Trim(topic))
       THEN GenerateSubmit
       ELSE UNCHANGED <<appState, hookState, callState, auxCore, histState>>

\* ----------------------------------------------------- progressPercentage
\* The numbers of line 252 are IEEE 754 doubles.  A positive double is
\* [m, e]: m holds the 52 fraction bits as four digits of 13 bits, most
\* significant first, and the value is (1 + m / 2^52) * 2^e.  The integer
\* operands of the operators below are under 2^17, which keeps every
\* intermediate value under 2^31.
Base == 2 ^ 13
Zero == [m |-> <<>>, e |-> 0]

\* The exponent s with b * 2^s <= a < b * 2^(s + 1), for a, b > 0.
RECURSIVE Shift(_, _)
Shift(a, b) == IF a < b THEN Shift(2 * a, b) - 1
               ELSE IF a >= 2 * b THEN Shift(a, 2 * b) + 1
               ELSE 0

\* The double next above [m, e]: one unit in the last place more.
NextUp(m, e) ==
    IF \A k \in 1..4 : m[k] = Base - 1
    THEN [m |-> <<0, 0, 0, 0>>, e |-> e + 1]
    ELSE LET j == CHOOSE j \in 1..4 :
                      m[j] # Base - 1 /\ \A k \in (j + 1)..4 : m[k] = Base - 1
         IN  [m |-> [k \in 1..4 |->
                        IF k < j THEN m[k] ELSE IF k = j THEN m[k] + 1 ELSE 0],
              e |-> e]

\* a / b for the integers a >= 0 and b > 0: the quotient rounded to the
\* nearest double, a tie to the even one.
DoubleDiv(a, b) ==
    IF a = 0 THEN Zero
    ELSE LET s == Shift(a, b)
             num == IF s < 0 THEN a * (2 ^ (0 - s)) ELSE a
             den == IF s > 0 THEN b * (2 ^ s) ELSE b
             r0 == num - den
             q1 == (r0 * Base) \div den
             r1 == (r0 * Base) % den
             q2 == (r1 * Base) \div den
             r2 == (r1 * Base) % den
             q3 == (r2 * Base) \div den
             r3 == (r2 * Base) % den
             q4 == (r3 * Base) \div den
             r4 == (r3 * Base) % den
             up == 2 * r4 > den \/ (2 * r4 = den /\ q4 % 2 = 1)
         IN  IF up THEN NextUp(<<q1, q2, q3, q4>>, s)
             ELSE [m |-> <<q1, q2, q3, q4>>, e |-> s]

\* d * k for a double d and an integer 0 <= k < 2^12: the product rounded
\* to the nearest double, a tie to the even one.
DoubleTimes(d, k) ==
    IF d = Zero \/ k = 0 THEN Zero
    ELSE LET t4 == d.m[4] * k
             t3 == (d.m[3] * k) + (t4 \div Base)
             t2 == (d.m[2] * k) + (t3 \div Base)
             t1 == (d.m[1] * k) + (t2 \div Base)
             top == k + (t1 \div Base)
             n == Shift(top, 1)
             p == <<top - (2 ^ n), t1 % Base, t2 % Base, t3 % Base, t4 % Base>>
             m == [i \in 1..4 |->
                      ((p[i] % (2 ^ n)) * (2 ^ (13 - n)))
                      + (p[i + 1] \div (2 ^ n))]
             dropped == p[5] % (2 ^ n)
             up == /\ n > 0
                   /\ \/ 2 * dropped > (2 ^ n)
                      \/ 2 * dropped = (2 ^ n) /\ m[4] % 2 = 1
         IN  IF up THEN NextUp(m, d.e + n) ELSE [m |-> m, e |-> d.e + n]

\* Math.round of a double under 2^26: the nearest integer, a half goes up.
MathRound(d) ==
    CASE d = Zero -> 0
      [] d # Zero /\ d.e < -1 -> 0
      [] d # Zero /\ d.e = -1 -> 1
      [] d # Zero /\ d.e \in 0..25 ->
             LET hi == (d.m[1] * Base) + d.m[2]
             IN  (2 ^ d.e) + (hi \div (2 ^ (26 - d.e)))
                 + ((hi \div (2 ^ (25 - d.e))) % 2)

\* The memo of lines 250-253: the division is done first, in doubles, then
\* the product with 100 is rounded.  Null here is the TypeError of reading
\* .length of the lessons of a course that has none.
ProgressPercentage ==
    IF IsNull(course) THEN Some(0)
    ELSE IF "lessons" \notin Val(course).keys THEN Null
    ELSE IF Len(Val(course).lessons) = 0 THEN Some(0)
    ELSE Some(MathRound(DoubleTimes(DoubleDiv(Len(completedLessons),
                                              Len(Val(course).lessons)),
                                    100)))

\* --------------------------------------------------- handleExpandLesson
ExpandFallback == "Unable to expand content at this time."
DeepText(title) == "deep " \o title
ExpandTexts(title) == {"", DeepText(title)}

\* response.text || fallback
OrText(text, fallback) == IF text = "" THEN fallback ELSE text

\* a[idx] = v on a JavaScript array: writing past the end leaves holes.
RECURSIVE Holes(_)
Holes(n) == IF n <= 0 THEN <<>> ELSE <<EmptyLesson>> \o Holes(n - 1)

ArraySet(a, idx, v) ==
    IF idx + 1 <= Len(a)
    THEN [a EXCEPT ![idx + 1] = v]
    ELSE a \o Holes(idx - Len(a)) \o <<v>>

\* a[idx] read, undefined past the end: { ...undefined } is {}.
ArrayGet(a, idx) == IF idx + 1 <= Len(a) THEN a[idx + 1] ELSE EmptyLesson

\* { expandedContent: text } : the spread of the lesson is missing.
WithExpandedOnly(lesson, text) ==
    [EmptyLesson EXCEPT !.keys = {"expandedContent"},
                        !.expandedContent = text]

\* { ...lesson, expandedContent: text }
WithExpanded(lesson, text) ==
    [lesson EXCEPT !.keys = @ \cup {"expandedContent"},
                   !.expandedContent = text]

\* The click, up to the await of expandLessonContent.
HandleExpandLesson(idx) ==
    IF IsNull(course)
    THEN UNCHANGED progVars
    ELSE /\ idx \in LessonIdxShown
         /\ isExpandingLesson # Some(idx)
         /\ Len(expandCalls) < MaxExpandCalls
         /\ isExpandingLesson' = Some(idx)
         /\ LET lesson == ArrayGet(Val(course).lessons, idx)
            IN  expandCalls' = Append(expandCalls,
                    [idx |-> idx, topic |-> Val(course).topic,
                     title |-> lesson.title, content |-> lesson.content])
         /\ UNCHANGED <<isGenerating, course, certifiedPathway,
                        completedLessons, videoUrl, isVideoGenerating,
                        isAudioGenerating, isAnalyzingVideo, videoAnalysis,
                        error, theme, chatMessages, isChatLoading,
                        videoOrientation, videoResolution, savedCourses,
                        hookState, genCalls, chatCalls, narrCalls,
                        analyzeCalls, video, auxState>>

\* The functional update of the success path.
ExpandedCourse(prevCourse, idx, expanded) ==
    IF IsNull(prevCourse)
    THEN Null
    ELSE LET prev == Val(prevCourse)
             old == IF "lessons" \in prev.keys THEN prev.lessons ELSE <<>>
             newLessons == ArraySet(old, idx,
                               WithExpanded(ArrayGet(old, idx), expanded))
         IN  Some([prev EXCEPT !.keys = @ \cup {"lessons"},
                               !.lessons = newLessons])

ExpandResolves(i, text) ==
    /\ i \in 1..Len(expandCalls)
    /\ text \in ExpandTexts(expandCalls[i].title)
    /\ course' = SetState(course,
                   ExpandedCourse(course, expandCalls[i].idx,
                                  OrText(text, ExpandFallback)))
    /\ isExpandingLesson' = SetState(isExpandingLesson, Null)
    /\ expandCalls' = RemoveAt(expandCalls, i)
    /\ UNCHANGED <<isGenerating, certifiedPathway, completedLessons,
                   videoUrl, isVideoGenerating, isAudioGenerating,
                   isAnalyzingVideo, videoAnalysis, error, theme,
                   chatMessages, isChatLoading, videoOrientation,
                   videoResolution, savedCourses, hookState, genCalls,
                   chatCalls, narrCalls, analyzeCalls, video, auxState>>

ExpandRejects(i) ==
    /\ i \in 1..Len(expandCalls)
    /\ isExpandingLesson' = SetState(isExpandingLesson, Null)
    /\ error' = SetState(error, Some(ErrExpand))
    /\ expandCalls' = RemoveAt(expandCalls, i)
    /\ UNCHANGED <<isGenerating, course, certifiedPathway, completedLessons,
                   videoUrl, isVideoGenerating, isAudioGenerating,
                   isAnalyzingVideo, videoAnalysis, theme, chatMessages,
                   isChatLoading, videoOrientation, videoResolution,
                   savedCourses, hookState, genCalls, chatCalls, narrCalls,
                   analyzeCalls, video, auxState>>

MaxLessonIdx == Len(CourseA.lessons) - 1
AllExpandTexts == {""} \cup {DeepText(t) : t \in {"A1", "A2", "B1"}}

\* ------------------------------------------------------------ handleChat
ChatFallback == <<"I'm sorry, I couldn't process that.">>
ChatReplies == {<<>>, <<"r">>}

\* The input of the chat panel.
SetChatInput(t) ==
    /\ Mounted
    /\ chatInput' = t
    /\ UNCHANGED <<appState, topic, depth, currentAudio, audioSourceRef,
                   activeTab, callState, auxState>>

\* result.text || fallback, on character sequences
OrReply(text, fallback) == IF text = <<>> THEN fallback ELSE text

\* handleChat that passes the list with the new user message as history.
HandleChatHistoryWithUser ==
    Mounted /\
    IF ~Truthy(Trim(chatInput))
    THEN UNCHANGED progVars
    ELSE /\ Len(chatCalls) < MaxChatCalls
         /\ Len(chatMessages) + Len(chatCalls) + 2 <= MaxChat
         /\ LET userMsg == [role |-> "user", text |-> chatInput]
            IN  /\ chatMessages' = Append(chatMessages, userMsg)
                /\ chatCalls' = Append(chatCalls,
                       [message |-> userMsg.text,
                        history |-> Append(chatMessages, userMsg)])
         /\ isChatLoading' = TRUE
         /\ chatInput' = <<>>
         /\ UNCHANGED <<isGenerating, course, certifiedPathway,
                        completedLessons, videoUrl, isVideoGenerating,
                        isAudioGenerating, isAnalyzingVideo, videoAnalysis,
                        error, theme, videoOrientation, videoResolution,
                        isExpandingLesson, savedCourses, topic, depth,
                        currentAudio, audioSourceRef, activeTab, genCalls,
                        expandCalls, narrCalls, analyzeCalls, video,
                        auxState>>

\* The click (or Enter), up to the await of chatWithGemini.  The history
\* argument is state.chatMessages of the render the handler closes over.
HandleChat ==
    Mounted /\
    IF ~Truthy(Trim(chatInput))
    THEN UNCHANGED progVars
    ELSE /\ Len(chatCalls) < MaxChatCalls
         /\ Len(chatMessages) + Len(chatCalls) + 2 <= MaxChat
         /\ LET userMsg == [role |-> "user", text |-> chatInput]
            IN  /\ chatMessages' = Append(chatMessages, userMsg)
                /\ chatCalls' = Append(chatCalls,
                       [message |-> userMsg.text, history |-> chatMessages])
         /\ isChatLoading' = TRUE
         /\ chatInput' = <<>>
         /\ UNCHANGED <<isGenerating, course, certifiedPathway,
                        completedLessons, videoUrl, isVideoGenerating,
                        isAudioGenerating, isAnalyzingVideo, videoAnalysis,
                        error, theme, videoOrientation, videoResolution,
                        isExpandingLesson, savedCourses, topic, depth,
                        currentAudio, audioSourceRef, activeTab, genCalls,
                        expandCalls, narrCalls, analyzeCalls, video,
                        auxState>>

ChatResolves(i, text) ==
    /\ i \in 1..Len(chatCalls)
    /\ chatMessages' = SetState(chatMessages, Append(chatMessages,
           [role |-> "model", text |-> OrReply(text, ChatFallback)]))
    /\ isChatLoading' = SetState(isChatLoading, FALSE)
    /\ chatCalls' = RemoveAt(chatCalls, i)
    /\ UNCHANGED <<isGenerating, course, certifiedPathway, completedLessons,
                   videoUrl, isVideoGenerating, isAudioGenerating,
                   isAnalyzingVideo, videoAnalysis, error, theme,
                   videoOrientation, videoResolution, isExpandingLesson,
                   savedCourses, hookState, genCalls, expandCalls, narrCalls,
                   analyzeCalls, video, auxState>>

ChatRejects(i) ==
    /\ i \in 1..Len(chatCalls)
    /\ isChatLoading' = SetState(isChatLoading, FALSE)
    /\ chatCalls' = RemoveAt(chatCalls, i)
    /\ UNCHANGED <<isGenerating, course, certifiedPathway, completedLessons,
                   videoUrl, isVideoGenerating, isAudioGenerating,
                   isAnalyzingVideo, videoAnalysis, error, theme,
                   chatMessages, videoOrientation, videoResolution,
                   isExpandingLesson, savedCourses, hookState, genCalls,
                   expandCalls, narrCalls, analyzeCalls, video, auxState>>

\* ---------------------------------------------------------- PCM decoding
Pow2(n) == 2 ^ n

\* A binary fraction num / 2^exp in lowest terms: the numbers a division of
\* an integer by 32768 produces.  All of them are exact in a Float32Array
\* (|num| < 2^24).
RECURSIVE Normalize(_, _)
Normalize(num, exp) ==
    IF num = 0 THEN [num |-> 0, exp |-> 0]
    ELSE IF exp > 0 /\ num % 2 = 0 THEN Normalize(num \div 2, exp - 1)
    ELSE [num |-> num, exp |-> exp]

\* The same two bytes read high byte first.
Int16AtBigEndian(bytes, k) ==
    LET u == 256 * bytes[2 * k + 1] + bytes[2 * k + 2]
    IN  IF u >= 32768 THEN u - 65536 ELSE u

\* The same two bytes read as an unsigned number: new Uint16Array(...).
Uint16At(bytes, k) == bytes[2 * k + 1] + 256 * bytes[2 * k + 2]

\* Element k (0-based) of new Int16Array(data.buffer): two bytes, low byte
\* first, read as a two's complement number.
Int16At(bytes, k) ==
    LET u == bytes[2 * k + 1] + 256 * bytes[2 * k + 2]
    IN  IF u >= 32768 THEN u - 65536 ELSE u

\* dataInt16[i] / 32768.0
Sample(s) == Normalize(s, 15)

\* new Int16Array(buffer) throws a RangeError on a byte length that is not a
\* multiple of 2, and createBuffer throws on a length of 0.
DecodeThrows(bytes) == Len(bytes) % 2 = 1 \/ Len(bytes) = 0

\* The loop over dataInt16 filling channelData.
DecodePcm(bytes) ==
    [i \in 1..(Len(bytes) \div 2) |-> Sample(Int16At(bytes, i - 1))]

\* ------------------------------------------------------ handleNarration
\* Buffers generateNarration can resolve with: atob of a non-empty string.
NarrBuffers == {<<0>>, <<0, 128>>}

\* A stop() that is not called.
StopSourceIgnored(srcs, n) == srcs

\* AudioBufferSourceNode.stop(): a playing source stops and its 'ended'
\* event is queued; on a source that is not playing it does nothing.
StopSource(srcs, n) ==
    IF srcs[n].status = "playing"
    THEN [srcs EXCEPT ![n].status = "stopped"]
    ELSE srcs

\* A source whose 'ended' event was delivered: nothing of it is observable
\* any more.
EndedSource == [lessonIdx |-> 0, status |-> "ended", channelData |-> <<>>]

\* The click on the narration button of lesson idx.
HandleNarration(idx) ==
    /\ idx \in LessonIdxShown
    /\ IF ~IsNull(currentAudio) /\ Val(currentAudio).lessonIdx = idx
            /\ Val(currentAudio).playing
       THEN /\ sources' = IF IsNull(audioSourceRef) THEN sources
                          ELSE StopSource(sources, Val(audioSourceRef))
            /\ audioSourceRef' = Null
            /\ currentAudio' = Null
            /\ UNCHANGED <<appState, topic, depth, chatInput, activeTab,
                           callState, videoLog, polls, nextId, pcmIn,
                           pcmOut, shareState, histState>>
       ELSE /\ Len(narrCalls) < MaxNarrCalls
            /\ isAudioGenerating' = TRUE
            /\ narrCalls' = Append(narrCalls,
                   [idx |-> idx,
                    text |-> ArrayGet(Val(course).lessons, idx).content])
            /\ UNCHANGED <<isGenerating, course, certifiedPathway,
                           completedLessons, videoUrl, isVideoGenerating,
                           isAnalyzingVideo, videoAnalysis, error, theme,
                           chatMessages, isChatLoading, videoOrientation,
                           videoResolution, isExpandingLesson, savedCourses,
                           hookState, genCalls, expandCalls, chatCalls,
                           analyzeCalls, video, auxState>>

\* The success path without if (audioSourceRef.current) stop().
NarrationResolvesKeepsOld(i, bytes) ==
    /\ i \in 1..Len(narrCalls)
    /\ Len(sources) < MaxSources \/ DecodeThrows(bytes)
    /\ IF DecodeThrows(bytes)
       THEN /\ error' = SetState(error, Some(ErrNarration))
            /\ UNCHANGED <<sources, audioSourceRef, currentAudio>>
       ELSE /\ sources' = Append(sources,
                       [lessonIdx |-> narrCalls[i].idx, status |-> "playing",
                        channelData |-> DecodePcm(bytes)])
            /\ audioSourceRef' = Some(Len(sources) + 1)
            /\ currentAudio' =
                   SetState(currentAudio,
                       Some([lessonIdx |-> narrCalls[i].idx,
                             playing |-> TRUE]))
            /\ error' = error
    /\ isAudioGenerating' = SetState(isAudioGenerating, FALSE)
    /\ narrCalls' = RemoveAt(narrCalls, i)
    /\ UNCHANGED <<isGenerating, course, certifiedPathway, completedLessons,
                   videoUrl, isVideoGenerating, isAnalyzingVideo,
                   videoAnalysis, theme, chatMessages, isChatLoading,
                   videoOrientation, videoResolution, isExpandingLesson,
                   savedCourses, topic, depth, chatInput, activeTab,
                   genCalls, expandCalls, chatCalls, analyzeCalls, video,
                   videoLog, polls, nextId, pcmIn, pcmOut,
                   shareState, histState>>

\* generateNarration resolves with the bytes of the audio.
NarrationResolves(i, bytes) ==
    /\ i \in 1..Len(narrCalls)
    /\ Len(sources) < MaxSources \/ DecodeThrows(bytes)
    /\ IF DecodeThrows(bytes)
       THEN /\ error' = SetState(error, Some(ErrNarration))
            /\ UNCHANGED <<sources, audioSourceRef, currentAudio>>
       ELSE /\ LET stopped == IF IsNull(audioSourceRef) THEN sources
                              ELSE StopSource(sources, Val(audioSourceRef))
               IN  sources' = Append(stopped,
                       [lessonIdx |-> narrCalls[i].idx, status |-> "playing",
                        channelData |-> DecodePcm(bytes)])
            /\ audioSourceRef' = Some(Len(sources) + 1)
            /\ currentAudio' =
                   SetState(currentAudio,
                       Some([lessonIdx |-> narrCalls[i].idx,
                             playing |-> TRUE]))
            /\ error' = error
    /\ isAudioGenerating' = SetState(isAudioGenerating, FALSE)
    /\ narrCalls' = RemoveAt(narrCalls, i)
    /\ UNCHANGED <<isGenerating, course, certifiedPathway, completedLessons,
                   videoUrl, isVideoGenerating, isAnalyzingVideo,
                   videoAnalysis, theme, chatMessages, isChatLoading,
                   videoOrientation, videoResolution, isExpandingLesson,
                   savedCourses, topic, depth, chatInput, activeTab,
                   genCalls, expandCalls, chatCalls, analyzeCalls, video,
                   videoLog, polls, nextId, pcmIn, pcmOut,
                   shareState, histState>>

\* generateNarration rejects (request failure, "No audio generated").
NarrationRejects(i) ==
    /\ i \in 1..Len(narrCalls)
    /\ error' = SetState(error, Some(ErrNarration))
    /\ isAudioGenerating' = SetState(isAudioGenerating, FALSE)
    /\ narrCalls' = RemoveAt(narrCalls, i)
    /\ UNCHANGED <<isGenerating, course, certifiedPathway, completedLessons,
                   videoUrl, isVideoGenerating, isAnalyzingVideo,
                   videoAnalysis, theme, chatMessages, isChatLoading,
                   videoOrientation, videoResolution, isExpandingLesson,
                   savedCourses, hookState, genCalls, expandCalls, chatCalls,
                   analyzeCalls, video, auxState>>

\* A playing source reaches the end of its buffer.
SourceFinishes(n) ==
    /\ n \in 1..Len(sources)
    /\ sources[n].status = "playing"
    /\ sources' = [sources EXCEPT ![n].status = "stopped"]
    /\ UNCHANGED <<appState, hookState, callState,
                   videoLog, polls, nextId, pcmIn, pcmOut,
                   shareState, histState>>

\* The 'ended' event of a source is delivered: source.onended.
SourceEnded(n) ==
    /\ n \in 1..Len(sources)
    /\ sources[n].status = "stopped"
    /\ sources' = [sources EXCEPT ![n] = EndedSource]
    /\ currentAudio' = SetState(currentAudio, Null)
    /\ UNCHANGED <<appState, topic, depth, chatInput, audioSourceRef,
                   activeTab, callState, videoLog, polls, nextId, pcmIn, pcmOut,
                   shareState, histState>>

\* -------------------------- handleGenerateVideoClick, generateCourseVideo
\* The video panel offers its settings and the "Generate Video" button only
\* when there is no video and none is being generated.
VideoFormShown == IsNull(videoUrl) /\ ~isVideoGenerating

ToggleOrientation ==
    /\ LessonIdxShown # {}
    /\ VideoFormShown
    /\ videoOrientation' = IF videoOrientation = "16:9" THEN "9:16" ELSE "16:9"
    /\ UNCHANGED <<isGenerating, course, certifiedPathway, completedLessons,
                   videoUrl, isVideoGenerating, isAudioGenerating,
                   isAnalyzingVideo, videoAnalysis, error, theme,
                   chatMessages, isChatLoading, videoResolution,
                   isExpandingLesson, savedCourses,
                   hookState, callState, auxState>>

ToggleResolution ==
    /\ LessonIdxShown # {}
    /\ VideoFormShown
    /\ videoResolution' = IF videoResolution = "720p" THEN "1080p" ELSE "720p"
    /\ UNCHANGED <<isGenerating, course, certifiedPathway, completedLessons,
                   videoUrl, isVideoGenerating, isAudioGenerating,
                   isAnalyzingVideo, videoAnalysis, error, theme,
                   chatMessages, isChatLoading, videoOrientation,
                   isExpandingLesson, savedCourses,
                   hookState, callState, auxState>>

videoFrame ==
    <<isGenerating, course, certifiedPathway, completedLessons,
      isAudioGenerating, isAnalyzingVideo, videoAnalysis, theme,
      chatMessages, isChatLoading, videoOrientation, videoResolution,
      isExpandingLesson, savedCourses, hookState, genCalls, expandCalls,
      chatCalls, narrCalls, analyzeCalls, sources, nextId, pcmIn, pcmOut,
                   shareState, histState>>

\* The click, up to the await of hasSelectedApiKey() in generateCourseVideo.
HandleGenerateVideoClick(idx) ==
    IF IsNull(course)
    THEN UNCHANGED progVars
    ELSE /\ idx \in LessonIdxShown
         /\ VideoFormShown
         /\ video.pc = "idle"
         /\ isVideoGenerating' = TRUE
         /\ error' = Null
         /\ video' = [pc |-> "hasKey", done |-> FALSE]
         /\ videoLog' = <<>>
         /\ polls' = 0
         /\ UNCHANGED <<videoUrl, videoFrame>>

\* ai.models.generateVideos is called.
CallGenerateVideos ==
    /\ video' = [video EXCEPT !.pc = "generateVideos"]
    /\ videoLog' = Append(videoLog, "generateVideos")
    /\ UNCHANGED <<videoUrl, isVideoGenerating, error, polls, videoFrame>>

VideoKeyChecked(hasKey) ==
    /\ video.pc = "hasKey"
    /\ IF hasKey
       THEN CallGenerateVideos
       ELSE /\ video' = [video EXCEPT !.pc = "openKey"]
            /\ UNCHANGED <<videoUrl, isVideoGenerating, error, videoLog,
                           polls, videoFrame>>

VideoKeyOpened ==
    /\ video.pc = "openKey"
    /\ CallGenerateVideos

\* The loop replaced by nothing: the download starts whatever done is.
LoopTestIgnoresDone(done) ==
    /\ video' = [pc |-> "fetch", done |-> done]
    /\ videoLog' = videoLog \o
           <<IF done THEN "done" ELSE "notDone", "fetch">>

\* while (!operation.done) : the test, and what follows it up to the next
\* await: the timer of the loop body, or the fetch after the loop.
LoopTest(done) ==
    /\ video' = [pc |-> IF done THEN "fetch" ELSE "wait", done |-> done]
    /\ videoLog' = videoLog \o
           (IF done THEN <<"done", "fetch">> ELSE <<"notDone", "wait">>)

\* generateVideos resolves with an operation.
GenerateVideosReturns(done) ==
    /\ video.pc = "generateVideos"
    /\ LoopTest(done)
    /\ UNCHANGED <<videoUrl, isVideoGenerating, error, polls, videoFrame>>

\* The 10 s timer fires: getVideosOperation is called.
WaitElapses ==
    /\ video.pc = "wait"
    /\ video' = [video EXCEPT !.pc = "getVideosOperation"]
    /\ videoLog' = Append(videoLog, "getVideosOperation")
    /\ polls' = polls + 1
    /\ UNCHANGED <<videoUrl, isVideoGenerating, error, videoFrame>>

\* getVideosOperation resolves.  The backend reports done at the latest on
\* re-query number MaxPolls.
GetVideosOperationReturns(done) ==
    /\ video.pc = "getVideosOperation"
    /\ done \/ polls < MaxPolls
    /\ LoopTest(done)
    /\ UNCHANGED <<videoUrl, isVideoGenerating, error, polls, videoFrame>>

\* fetch(downloadLink) resolves: response.blob() is called.
FetchReturns ==
    /\ video.pc = "fetch"
    /\ video' = [video EXCEPT !.pc = "blob"]
    /\ videoLog' = Append(videoLog, "blob")
    /\ UNCHANGED <<videoUrl, isVideoGenerating, error, polls, videoFrame>>

VideoUrls == {"blob:video"}

\* response.blob() resolves: generateCourseVideo resolves with the object
\* URL and the handler stores it.
VideoResolves(url) ==
    /\ video.pc = "blob"
    /\ videoUrl' = SetState(videoUrl, Some(url))
    /\ isVideoGenerating' = SetState(isVideoGenerating, FALSE)
    /\ video' = VideoIdle
    /\ videoLog' = <<>>
    /\ polls' = 0
    /\ UNCHANGED <<error, videoFrame>>

\* The catch block without isVideoGenerating: false.
VideoRejectsKeepsFlag ==
    /\ video.pc \notin {"idle", "wait"}
    /\ error' = SetState(error, Some(ErrVideo))
    /\ video' = VideoIdle
    /\ videoLog' = <<>>
    /\ polls' = 0
    /\ UNCHANGED <<videoUrl, isVideoGenerating, videoFrame>>

\* An awaited promise of generateCourseVideo rejects: any of them but the
\* 10 s timer of the poll loop, which can only resolve.
VideoRejects ==
    /\ video.pc \notin {"idle", "wait"}
    /\ isVideoGenerating' = SetState(isVideoGenerating, FALSE)
    /\ error' = SetState(error, Some(ErrVideo))
    /\ video' = VideoIdle
    /\ videoLog' = <<>>
    /\ polls' = 0
    /\ UNCHANGED <<videoUrl, videoFrame>>

\* ------------------------------------- video upload: analyzeVideoContent
AnalyzeFallback == "Could not analyze."
AnalyzeTexts == {"", "analysis"}

analyzeFrame ==
    <<isGenerating, course, certifiedPathway, completedLessons, videoUrl,
      isVideoGenerating, isAudioGenerating, error, theme, chatMessages,
      isChatLoading, videoOrientation, videoResolution, isExpandingLesson,
      savedCourses, hookState, genCalls, expandCalls, chatCalls, narrCalls,
      video, auxState>>

\* onChange of the file input with a file: reader.readAsDataURL(file).
UploadVideo ==
    /\ Mounted
    /\ activeTab = "analyze"
    /\ Len(analyzeCalls) < MaxAnalyzeCalls
    /\ analyzeCalls' = Append(analyzeCalls, [stage |-> "reading"])
    /\ UNCHANGED <<isAnalyzingVideo, videoAnalysis, analyzeFrame>>

\* reader.onload, up to the await of analyzeVideoContent.
ReaderLoads(i) ==
    /\ i \in 1..Len(analyzeCalls)
    /\ analyzeCalls[i].stage = "reading"
    /\ isAnalyzingVideo' = SetState(isAnalyzingVideo, TRUE)
    /\ analyzeCalls' = [analyzeCalls EXCEPT ![i].stage = "call"]
    /\ UNCHANGED <<videoAnalysis, analyzeFrame>>

AnalyzeResolves(i, text) ==
    /\ i \in 1..Len(analyzeCalls)
    /\ analyzeCalls[i].stage = "call"
    /\ videoAnalysis' =
           SetState(videoAnalysis, Some(OrText(text, AnalyzeFallback)))
    /\ isAnalyzingVideo' = SetState(isAnalyzingVideo, FALSE)
    /\ analyzeCalls' = RemoveAt(analyzeCalls, i)
    /\ UNCHANGED analyzeFrame

\* analyzeVideoContent rejects: onload has no try/catch, the rejection is
\* unhandled and the second setState never runs.
AnalyzeRejects(i) ==
    /\ i \in 1..Len(analyzeCalls)
    /\ analyzeCalls[i].stage = "call"
    /\ analyzeCalls' = RemoveAt(analyzeCalls, i)
    /\ UNCHANGED <<isAnalyzingVideo, videoAnalysis, analyzeFrame>>

\* ---------------------------------------------------- the PCM decoder alone
PcmBytes == {0, 1, 127, 128, 255}
Byte == 0..255

\* Every 16-bit sample, and every buffer of 1..MaxPcmLen sample bytes:
\* buffers of one, two and three samples, and the odd lengths between.
PcmInputs ==
    [1..2 -> Byte] \cup UNION {[1..n -> PcmBytes] : n \in 1..MaxPcmLen}

InitPcm ==
    /\ Init!1 /\ Init!2 /\ Init!3 /\ Init!4 /\ Init!5 /\ Init!6 /\ Init!7
    /\ Init!8 /\ Init!9 /\ Init!10 /\ Init!11 /\ Init!12 /\ Init!13
    /\ Init!14 /\ Init!15 /\ Init!16 /\ Init!17 /\ Init!18 /\ Init!19
    /\ Init!20 /\ Init!21 /\ Init!22 /\ Init!23 /\ Init!24 /\ Init!25
    /\ Init!26 /\ Init!27 /\ Init!28 /\ Init!29 /\ Init!30 /\ Init!31
    /\ Init!32
    /\ pcmIn \in PcmInputs
    /\ pcmOut = Null
    /\ issued = 0
    /\ Init!36 /\ Init!37 /\ Init!38 /\ Init!39 /\ Init!40 /\ Init!41
    /\ Init!42 /\ Init!43

\* Lines 216-222 of handleNarration applied to pcmIn.
Decode ==
    /\ IsNull(pcmOut)
    /\ pcmOut' = IF DecodeThrows(pcmIn)
                 THEN Some([threw |-> TRUE, channelData |-> <<>>])
                 ELSE Some([threw |-> FALSE, channelData |-> DecodePcm(pcmIn)])
    /\ UNCHANGED <<appState, hookState, callState, sources, videoLog, polls,
                   nextId, pcmIn, shareState, histState, issued,
                   clicks>>

SpecPcm == InitPcm /\ [][Decode]_vars

GenActions ==
    \/ \E t \in Topics : SetTopic(t)
    \/ \E d \in DepthButtons : SetDepth(d)
    \/ HandleGenerate
    \/ \E i \in 1..MaxGenCalls, text \in CourseTexts : GenerateResolves(i, text)
    \/ \E i \in 1..MaxGenCalls : GenerateRejects(i)
    \/ HomeClick

CertifiedActions ==
    \/ \E y \in Years : HandleGenerateCertified(y)
    \/ \E i \in 1..MaxGenCalls, b \in BOOLEAN : CertifiedKeyChecked(i, b)
    \/ \E i \in 1..MaxGenCalls : CertifiedKeyOpened(i)
    \/ \E i \in 1..MaxGenCalls : CertifiedKeyRejects(i)
    \/ \E i \in 1..MaxGenCalls, text \in PathwayTexts : PathwayResolves(i, text)
    \/ \E i \in 1..MaxGenCalls : PathwayRejects(i)

LibraryActions ==
    \/ HandleSaveForOffline
    \/ \E id \in 1..MaxSaves : HandleDeleteSaved(id)
    \/ \E k \in 1..MaxSaves : HandleLoadSaved(k)

ExpandActions ==
    \/ \E idx \in 0..MaxLessonIdx : HandleExpandLesson(idx)
    \/ \E i \in 1..MaxExpandCalls, text \in AllExpandTexts : ExpandResolves(i, text)
    \/ \E i \in 1..MaxExpandCalls : ExpandRejects(i)

ChatActions ==
    \/ \E t \in ChatInputs : SetChatInput(t)
    \/ HandleChat
    \/ \E i \in 1..MaxChatCalls, text \in ChatReplies : ChatResolves(i, text)
    \/ \E i \in 1..MaxChatCalls : ChatRejects(i)

NarrationActions ==
    \/ \E idx \in 0..MaxLessonIdx : HandleNarration(idx)
    \/ \E i \in 1..MaxNarrCalls, b \in NarrBuffers : NarrationResolves(i, b)
    \/ \E i \in 1..MaxNarrCalls : NarrationRejects(i)
    \/ \E n \in 1..MaxSources : SourceFinishes(n)
    \/ \E n \in 1..MaxSources : SourceEnded(n)

VideoActions ==
    \/ \E idx \in 0..MaxLessonIdx : HandleGenerateVideoClick(idx)
    \/ \E b \in BOOLEAN : VideoKeyChecked(b)
    \/ VideoKeyOpened
    \/ \E b \in BOOLEAN : GenerateVideosReturns(b)
    \/ WaitElapses
    \/ \E b \in BOOLEAN : GetVideosOperationReturns(b)
    \/ FetchReturns
    \/ \E u \in VideoUrls : VideoResolves(u)
    \/ VideoRejects

VideoSettings ==
    \/ ToggleOrientation
    \/ ToggleResolution

AnalyzeActions ==
    \/ UploadVideo
    \/ \E i \in 1..MaxAnalyzeCalls : ReaderLoads(i)
    \/ \E i \in 1..MaxAnalyzeCalls, text \in AnalyzeTexts : AnalyzeResolves(i, text)
    \/ \E i \in 1..MaxAnalyzeCalls : AnalyzeRejects(i)


\* ------------------------------------------------------- specifications
GenSettles ==
    \/ \E i \in 1..MaxGenCalls, text \in CourseTexts : GenerateResolves(i, text)
    \/ \E i \in 1..MaxGenCalls : GenerateRejects(i)

CertifiedSettles ==
    \/ \E i \in 1..MaxGenCalls, b \in BOOLEAN : CertifiedKeyChecked(i, b)
    \/ \E i \in 1..MaxGenCalls : CertifiedKeyOpened(i)
    \/ \E i \in 1..MaxGenCalls : CertifiedKeyRejects(i)
    \/ \E i \in 1..MaxGenCalls, text \in PathwayTexts : PathwayResolves(i, text)
    \/ \E i \in 1..MaxGenCalls : PathwayRejects(i)

ExpandSettles ==
    \/ \E i \in 1..MaxExpandCalls, text \in AllExpandTexts : ExpandResolves(i, text)
    \/ \E i \in 1..MaxExpandCalls : ExpandRejects(i)

ChatSettles ==
    \/ \E i \in 1..MaxChatCalls, text \in ChatReplies : ChatResolves(i, text)
    \/ \E i \in 1..MaxChatCalls : ChatRejects(i)

NarrationSettles ==
    \/ \E i \in 1..MaxNarrCalls, b \in NarrBuffers : NarrationResolves(i, b)
    \/ \E i \in 1..MaxNarrCalls : NarrationRejects(i)
    \/ \E n \in 1..MaxSources : SourceFinishes(n)
    \/ \E n \in 1..MaxSources : SourceEnded(n)

VideoSettles ==
    \/ \E b \in BOOLEAN : VideoKeyChecked(b)
    \/ VideoKeyOpened
    \/ \E b \in BOOLEAN : GenerateVideosReturns(b)
    \/ WaitElapses
    \/ \E b \in BOOLEAN : GetVideosOperationReturns(b)
    \/ FetchReturns
    \/ \E u \in VideoUrls : VideoResolves(u)
    \/ VideoRejects

AnalyzeSettles ==
    \/ \E i \in 1..MaxAnalyzeCalls : ReaderLoads(i)
    \/ \E i \in 1..MaxAnalyzeCalls, text \in AnalyzeTexts : AnalyzeResolves(i, text)
    \/ \E i \in 1..MaxAnalyzeCalls : AnalyzeRejects(i)

\* The whole application: every handler on every tab.  A run is cut by its
\* cost: a click that may start a request costs two (issued counts them), a
\* click that changes a setting, the library or the clipboard, or that
\* opens the shared link, costs one (clicks counts them); typing, the logo,
\* the tab buttons, the continuations and the timer of the shared-link
\* effect are free.  A run spends at most MaxAppCost.
Settles ==
    \/ GenSettles
    \/ CertifiedSettles
    \/ ExpandSettles
    \/ ChatSettles
    \/ NarrationSettles
    \/ VideoSettles
    \/ AnalyzeSettles

Calls ==
    \/ HandleGenerate
    \/ \E y \in Years : HandleGenerateCertified(y)
    \/ \E idx \in 0..MaxLessonIdx : HandleExpandLesson(idx)
    \/ HandleChat
    \/ \E idx \in 0..MaxLessonIdx : HandleNarration(idx)
    \/ \E idx \in 0..MaxLessonIdx : HandleGenerateVideoClick(idx)
    \/ UploadVideo

Inputs ==
    \/ \E t \in Topics : SetTopic(t)
    \/ \E t \in ChatInputs : SetChatInput(t)
    \/ HomeClick
    \/ \E t \in Tabs : SetActiveTab(t)

Controls ==
    \/ \E d \in DepthButtons : SetDepth(d)
    \/ \E t \in {"blue", "black"} : SetTheme(t)
    \/ \E idx \in 0..MaxLessonIdx : ToggleLessonCompletion(idx)
    \/ LibraryActions
    \/ VideoSettings
    \/ HandleShare
    \/ OpenSharedLink

Cost == 2 * issued + clicks

Next ==
    \/ (Settles \/ Inputs \/ AutoClickFires) /\ UNCHANGED <<issued, clicks>>
    \/ /\ Calls
       /\ Cost + 2 <= MaxAppCost
       /\ issued' = issued + 1
       /\ UNCHANGED clicks
    \/ /\ Controls
       /\ Cost + 1 <= MaxAppCost
       /\ clicks' = clicks + 1
       /\ UNCHANGED issued

Spec == Init /\ [][Next]_vars

\* handleGenerate next to everything its frame names: the library, the
\* chat, the video, the theme and the video settings.
FrameCalls ==
    \/ HandleGenerate
    \/ HandleChat
    \/ \E idx \in 0..MaxLessonIdx : HandleGenerateVideoClick(idx)

FrameEdits ==
    \/ \E t \in {s \in Topics : Truthy(Trim(s))} : SetTopic(t)
    \/ \E t \in {s \in ChatInputs : Truthy(Trim(s))} : SetChatInput(t)
    \/ HomeClick
    \/ \E t \in {"blue", "black"} : SetTheme(t)
    \/ VideoSettings
    \/ HandleSaveForOffline
    \/ ToggleLessonCompletion(0)

NextFrame ==
    \/ (GenSettles \/ ChatSettles \/ VideoSettles \/ FrameEdits)
           /\ UNCHANGED <<issued, clicks>>
    \/ /\ FrameCalls
       /\ issued < MaxIssued
       /\ issued' = issued + 1
       /\ UNCHANGED clicks

SpecFrame == Init /\ [][NextFrame]_vars

\* The chat alone.
NextChat == ChatActions /\ UNCHANGED <<issued, clicks>>
SpecChat == Init /\ [][NextChat]_vars

\* Course generation and the video of a lesson.
NextVideo ==
    /\ GenActions \/ VideoActions \/ VideoSettings
    /\ UNCHANGED <<issued, clicks>>
SpecVideo == Init /\ [][NextVideo]_vars

\* Course generation and lesson expansion.
NextExpand ==
    (GenActions \/ ExpandActions) /\ UNCHANGED <<issued, clicks>>
SpecExpand == Init /\ [][NextExpand]_vars

\* The lessons marked done next to the requests that change the course.
ProgressCalls ==
    \/ HandleGenerate
    \/ \E y \in Years : HandleGenerateCertified(y)

ProgressEdits ==
    \/ \E t \in {s \in Topics : Truthy(Trim(s))} : SetTopic(t)
    \/ HomeClick
    \/ \E t \in {"learn", "certified"} : SetActiveTab(t)
    \/ \E idx \in 0..MaxLessonIdx : ToggleLessonCompletion(idx)

NextProgress ==
    \/ /\ GenSettles \/ CertifiedSettles \/ ProgressEdits
       /\ UNCHANGED <<issued, clicks>>
    \/ /\ ProgressCalls
       /\ issued < MaxIssued
       /\ issued' = issued + 1
       /\ UNCHANGED clicks
SpecProgress == Init /\ [][NextProgress]_vars

\* Narration with the generation that puts a course on screen.
NextNarration ==
    (GenActions \/ NarrationActions) /\ UNCHANGED <<issued, clicks>>
SpecNarration == Init /\ [][NextNarration]_vars

\* A page showing course A with any topic in the field and any depth, the
\* link shared from it, and the page that link opens; issued counts the
\* course requests of the page.
InitShare ==
    /\ Init!1
    /\ course = Some(CourseA)
    /\ Init!3 /\ Init!4 /\ Init!5 /\ Init!6 /\ Init!7 /\ Init!8 /\ Init!9
    /\ Init!10 /\ Init!11 /\ Init!12 /\ Init!13 /\ Init!14 /\ Init!15
    /\ Init!16 /\ Init!17
    /\ topic \in ShareTopics
    /\ depth \in Depths
    /\ Init!20 /\ Init!21 /\ Init!22 /\ Init!23 /\ Init!24 /\ Init!25
    /\ Init!26 /\ Init!27 /\ Init!28 /\ Init!29 /\ Init!30 /\ Init!31
    /\ Init!32 /\ Init!33 /\ Init!34 /\ Init!35 /\ Init!36 /\ Init!37
    /\ Init!38 /\ Init!39 /\ Init!40 /\ Init!41 /\ Init!42
    /\ Init!43

NextShare ==
    \/ HandleShare /\ UNCHANGED <<issued, clicks>>
    \/ OpenSharedLink /\ issued' = 0 /\ UNCHANGED clicks
    \/ /\ AutoClickFires
       /\ issued' = IF genCalls' # genCalls THEN issued + 1 ELSE issued
       /\ UNCHANGED clicks
    \/ /\ \/ \E i \in 1..MaxGenCalls, text \in CourseTexts :
                 GenerateResolves(i, text)
          \/ \E i \in 1..MaxGenCalls : GenerateRejects(i)
       /\ UNCHANGED <<issued, clicks>>
SpecShare == InitShare /\ [][NextShare]_vars

\* The library with the generation that fills it: the backend also answers
\* with a third course, so that a save can find two entries of other topics.
LibraryTexts == CourseTexts \cup {"jsonC"}

NextLibrary ==
    /\ \/ \E t \in Topics : SetTopic(t)
       \/ \E d \in DepthButtons : SetDepth(d)
       \/ HandleGenerate
       \/ \E i \in 1..MaxGenCalls, text \in LibraryTexts :
              GenerateResolves(i, text)
       \/ \E i \in 1..MaxGenCalls : GenerateRejects(i)
       \/ HomeClick
       \/ \E t \in {"learn", "library"} : SetActiveTab(t)
       \/ LibraryActions
    /\ UNCHANGED <<issued, clicks>>
SpecLibrary == Init /\ [][NextLibrary]_vars

\* The video of a lesson under the scheduling the code relies on: every
\* awaited promise of generateCourseVideo settles, the timer fires.
SpecVideoFair ==
    SpecVideo /\ WF_vars(VideoSettles /\ UNCHANGED <<issued, clicks>>)

\* ================================================================ claims
InFlight ==
    Len(genCalls) + Len(expandCalls) + Len(chatCalls) + Len(narrCalls)
    + Len(analyzeCalls) + (IF video.pc = "idle" THEN 0 ELSE 1)

\* C1: once every outstanding backend call has settled, by success or by
\* rejection, none of the busy flags isGenerating, isExpandingLesson,
\* isChatLoading, isAudioGenerating, isVideoGenerating, isAnalyzingVideo is
\* still set.
C1_BusyFlagsCleared ==
    InFlight = 0 =>
        /\ ~isGenerating
        /\ IsNull(isExpandingLesson)
        /\ ~isChatLoading
        /\ ~isAudioGenerating
        /\ ~isVideoGenerating
        /\ ~isAnalyzingVideo

\* C2: in generateCourseVideo the fetch of the download link directly
\* follows an observation of operation.done = true, and every
\* getVideosOperation directly follows a wait that directly follows an
\* observation of operation.done = false.
C2_DownloadAfterDone ==
    /\ \A k \in 1..Len(videoLog) :
          /\ videoLog[k] = "fetch" => k > 1 /\ videoLog[k - 1] = "done"
          /\ videoLog[k] = "getVideosOperation" =>
                 k > 2 /\ videoLog[k - 1] = "wait"
                       /\ videoLog[k - 2] = "notDone"
    /\ video.pc \in {"fetch", "blob"} => video.done
    /\ video.pc \in {"wait", "getVideosOperation"} => ~video.done

C2_Witness ==
    /\ video.pc = "fetch"
    /\ polls >= 1
    /\ \E k \in 1..Len(videoLog) : videoLog[k] = "getVideosOperation"

\* C3: a video generation that was started ends: generateCourseVideo
\* settles and, in an App that stays on screen, isVideoGenerating goes back
\* to false; at that moment videoUrl or error is set, and the poll loop is
\* left for the download only on an observation of done.
C3_VideoTerminates ==
    /\ (video.pc # "idle") ~> (video.pc = "idle")
    /\ (Mounted /\ isVideoGenerating) ~> (~Mounted \/ ~isVideoGenerating)
    /\ [][/\ (isVideoGenerating /\ ~isVideoGenerating') =>
                 (~IsNull(videoUrl') \/ error' = Some(ErrVideo))
          /\ (video.pc # "fetch" /\ video'.pc = "fetch") => video'.done]_vars

C3_Witness == video.pc = "blob" /\ polls = MaxPolls /\ isVideoGenerating

\* The signed 16-bit little-endian number of two bytes.
SignedLE(lo, hi) == lo + 256 * hi - (IF hi >= 128 THEN 65536 ELSE 0)

\* C4: for a byte buffer of even length 2n the channel has n samples and
\* sample i is the signed 16-bit little-endian number of bytes 2i and 2i+1
\* divided by 32768.
C4_PcmDecoding ==
    (~IsNull(pcmOut) /\ Len(pcmIn) % 2 = 0) =>
        /\ ~Val(pcmOut).threw
        /\ Len(Val(pcmOut).channelData) = Len(pcmIn) \div 2
        /\ \A i \in 0..(Len(pcmIn) \div 2 - 1) :
              LET x == Val(pcmOut).channelData[i + 1]
              IN  x.num * 32768 =
                      SignedLE(pcmIn[2 * i + 1], pcmIn[2 * i + 2]) * Pow2(x.exp)

C4_Witness ==
    /\ pcmIn = <<1, 128, 0, 128, 255, 127>>
    /\ ~IsNull(pcmOut)
    /\ Val(pcmOut).channelData =
           <<[num |-> -32767, exp |-> 15], [num |-> -1, exp |-> 0],
             [num |-> 32767, exp |-> 15]>>

\* C5: every decoded sample x satisfies -1 <= x < 1; the sample -32768
\* decodes to exactly -1 and the sample 0 to exactly 0.
C5_SampleRange ==
    (~IsNull(pcmOut) /\ ~Val(pcmOut).threw) =>
        /\ \A i \in 1..Len(Val(pcmOut).channelData) :
              LET x == Val(pcmOut).channelData[i]
              IN  -Pow2(x.exp) <= x.num /\ x.num < Pow2(x.exp)
        /\ pcmIn = <<0, 128>> =>
               Val(pcmOut).channelData = <<[num |-> -1, exp |-> 0]>>
        /\ pcmIn = <<0, 0>> =>
               Val(pcmOut).channelData = <<[num |-> 0, exp |-> 0]>>

C5_Witness ==
    /\ pcmIn = <<0, 128>>
    /\ ~IsNull(pcmOut)
    /\ ~Val(pcmOut).threw

\* C6: in an App that is on screen, the rejection of the backend call of
\* handleGenerate, handleGenerateCertified, handleExpandLesson,
\* handleNarration or handleGenerateVideoClick sets error to the handler's
\* own message; mounted or not, it leaves the handler's result field as it
\* is: course, certifiedPathway, the lessons of the course, the playback,
\* videoUrl.
C6_RejectionSetsError ==
    [][/\ (\E i \in 1..MaxGenCalls : GenerateRejects(i)) =>
              /\ Mounted => error' = Some("Failed to generate course.")
              /\ course' = course
       /\ (\E i \in 1..MaxGenCalls : PathwayRejects(i)) =>
              /\ Mounted => error' = Some("Failed to generate pathway.")
              /\ certifiedPathway' = certifiedPathway
       /\ (\E i \in 1..MaxExpandCalls : ExpandRejects(i)) =>
              /\ Mounted => error' = Some("Failed to expand content.")
              /\ course' = course
       /\ (\E i \in 1..MaxNarrCalls : NarrationRejects(i)) =>
              /\ Mounted => error' = Some("Failed to generate narration.")
              /\ UNCHANGED <<sources, audioSourceRef, currentAudio>>
       /\ VideoRejects =>
              /\ Mounted => error' = Some("Failed to generate video.")
              /\ videoUrl' = videoUrl
      ]_vars

C6_Witness ==
    /\ error = Some("Failed to expand content.")
    /\ ~IsNull(course)
    /\ IsNull(isExpandingLesson)
    /\ expandCalls = <<>>

\* A step that issues a generateCourse call.
IssuesCourseCall ==
    /\ Len(genCalls') = Len(genCalls) + 1
    /\ genCalls'[Len(genCalls')].kind = "course"

frameOfGenerate ==
    <<savedCourses, chatMessages, videoUrl, theme, videoOrientation,
      videoResolution>>

\* C7: handleGenerate with a non-blank topic sets isGenerating = true,
\* error = null, course = null, certifiedPathway = null and
\* completedLessons = [] and calls generateCourse(topic, depth); when the
\* call resolves in an App that is on screen, the returned course is stored
\* and isGenerating is false; both steps leave savedCourses, chatMessages,
\* videoUrl, theme and the video settings unchanged.
C7_GenerateFrame ==
    [][/\ IssuesCourseCall =>
              /\ isGenerating' /\ IsNull(error') /\ IsNull(course')
              /\ IsNull(certifiedPathway') /\ completedLessons' = <<>>
              /\ genCalls'[Len(genCalls')].topic = topic
              /\ genCalls'[Len(genCalls')].depth = depth
              /\ UNCHANGED frameOfGenerate
       /\ \A i \in 1..MaxGenCalls, text \in CourseTexts :
              GenerateResolves(i, text) =>
                  /\ Mounted =>
                         /\ course' =
                                Some(JsonParseCourse(OrEmptyObject(text)))
                         /\ ~isGenerating'
                  /\ UNCHANGED frameOfGenerate
      ]_vars

C7_Witness ==
    /\ isGenerating
    /\ Len(genCalls) = 1
    /\ IsNull(course)
    /\ completedLessons = <<>>
    /\ ~IsNull(videoUrl)
    /\ savedCourses # <<>>
    /\ theme = "black"

\* A string of white space only.
IsBlank(s) == \A k \in 1..Len(s) : s[k] = SPACE

\* C8: a blank topic or chat input never reaches the backend: no
\* outstanding call carries one, no step taken while the topic is blank
\* issues a course or pathway call or raises isGenerating for one, and no
\* step taken while the chat input is blank issues a chat call or appends a
\* user message.
C8_BlankNeverSent ==
    /\ [](/\ \A i \in 1..Len(genCalls) : ~IsBlank(genCalls[i].topic)
          /\ \A i \in 1..Len(chatCalls) : ~IsBlank(chatCalls[i].message))
    /\ [][/\ IsBlank(topic) =>
                 /\ Len(genCalls') <= Len(genCalls)
                 /\ (isGenerating' /\ ~isGenerating) =>
                        \E i \in 1..Len(genCalls) :
                            genCalls[i].stage \in {"key", "open"}
          /\ IsBlank(chatInput) =>
                 /\ Len(chatCalls') <= Len(chatCalls)
                 /\ \/ chatMessages' = chatMessages
                    \/ chatMessages'[Len(chatMessages')].role = "model"
         ]_vars

C8_Witness ==
    /\ issued > 0
    /\ topic = <<SPACE>>
    /\ chatInput = <<SPACE>>
    /\ genCalls = <<>> /\ chatCalls = <<>> /\ chatMessages = <<>>
    /\ analyzeCalls = <<>> /\ InFlight = 0
    /\ ~isGenerating /\ ~isChatLoading /\ IsNull(error)

\* C9: handleChat appends the user's message to chatMessages and passes as
\* history the messages that were there before it; a reply is appended
\* after the user message; chatMessages only ever grows at its end.
C9_ChatAppends ==
    [][/\ Len(chatCalls') = Len(chatCalls) + 1 =>
              LET call == chatCalls'[Len(chatCalls')]
              IN  /\ chatMessages' =
                         Append(chatMessages,
                                [role |-> "user", text |-> chatInput])
                  /\ call.history = chatMessages
                  /\ call.message = chatInput
       /\ \A i \in 1..MaxChatCalls, text \in ChatReplies :
              ChatResolves(i, text) =>
                  /\ chatMessages' =
                         Append(chatMessages,
                                [role |-> "model",
                                 text |-> IF text = <<>> THEN ChatFallback
                                          ELSE text])
                  /\ \E k \in 1..Len(chatMessages) :
                         /\ chatMessages[k] =
                                [role |-> "user",
                                 text |-> chatCalls[i].message]
                         /\ k = Len(chatCalls[i].history) + 1
       /\ Len(chatMessages') >= Len(chatMessages)
       /\ SubSeq(chatMessages', 1, Len(chatMessages)) = chatMessages
      ]_vars

C9_Witness ==
    /\ Len(chatMessages) = 4
    /\ chatMessages[4].role = "model"
    /\ chatMessages[3].role = "user"
    /\ chatCalls = <<>>

\* C10: in an App that is on screen, a successful expansion of lesson idx
\* puts the returned text in expandedContent of lesson idx of the current
\* course, resets isExpandingLesson and leaves every other lesson and the
\* other fields of lesson idx as they were; handleExpandLesson without a
\* course does nothing.
C10_ExpandFrame ==
    [][/\ \A i \in 1..MaxExpandCalls, text \in AllExpandTexts :
              (ExpandResolves(i, text) /\ ~IsNull(course) /\ Mounted) =>
                  LET idx == expandCalls[i].idx
                      old == IF "lessons" \in Val(course).keys
                             THEN Val(course).lessons ELSE <<>>
                      new == Val(course').lessons
                      was == ArrayGet(old, idx)
                      now == ArrayGet(new, idx)
                  IN  /\ ~IsNull(course')
                      /\ now.expandedContent =
                             (IF text = "" THEN ExpandFallback ELSE text)
                      /\ "expandedContent" \in now.keys
                      /\ now.title = was.title /\ now.content = was.content
                      /\ now.keyTakeaways = was.keyTakeaways
                      /\ now.sources = was.sources
                      /\ now.keys \ {"expandedContent"} =
                             was.keys \ {"expandedContent"}
                      /\ \A j \in 0..(Len(new) - 1) :
                             j # idx => ArrayGet(new, j) = ArrayGet(old, j)
                      /\ Len(new) >= Len(old)
                      /\ IsNull(isExpandingLesson')
       /\ IsNull(course) =>
              /\ Len(expandCalls') <= Len(expandCalls)
              /\ isExpandingLesson' \in {isExpandingLesson, Null}
      ]_vars

C10_Witness ==
    /\ ~IsNull(course)
    /\ Val(course).topic = <<"A">>
    /\ Len(Val(course).lessons) = 2
    /\ Val(course).lessons[2].expandedContent = DeepText("A2")
    /\ Val(course).lessons[1] = MkLesson("A1")
    /\ IsNull(isExpandingLesson)

\* The positions of savedCourses whose topic is not t.
OtherTopics(saved, t) == {k \in 1..Len(saved) : saved[k].content.topic # t}

\* C11: a save with a current course puts the new entry (current course,
\* current depth) at index 0, leaves no other entry of that topic and keeps
\* the entries of the other topics, in their order; a step taken with no
\* current course adds no entry; and no two entries of the library ever
\* have the same topic.
C11_OneEntryPerTopic ==
    /\ [](\A j, k \in 1..Len(savedCourses) :
             savedCourses[j].content.topic = savedCourses[k].content.topic
                 => j = k)
    /\ [][/\ nextId' # nextId =>
                 LET t == Val(course).topic
                     others == OtherTopics(savedCourses, t)
                 IN  /\ ~IsNull(course)
                     /\ savedCourses'[1].content = Val(course)
                     /\ savedCourses'[1].depth = depth
                     /\ OtherTopics(savedCourses', t) =
                            2..Len(savedCourses')
                     /\ Len(savedCourses') = 1 + Cardinality(others)
                     /\ \A j \in others :
                            \E jj \in 2..Len(savedCourses') :
                                /\ savedCourses'[jj] = savedCourses[j]
                                /\ \A k \in others :
                                       j < k =>
                                           \E kk \in (jj + 1)..Len(savedCourses') :
                                               savedCourses'[kk] = savedCourses[k]
          /\ IsNull(course) =>
                 /\ nextId' = nextId
                 /\ \A k \in 1..Len(savedCourses') :
                        \E j \in 1..Len(savedCourses) :
                            savedCourses'[k] = savedCourses[j]
      ]_vars

\* Course A was saved again after course B: the older entry of A is gone.
C11_Witness ==
    /\ Len(savedCourses) = 2
    /\ savedCourses[1].id = 3
    /\ savedCourses[1].content.topic = <<"A">>
    /\ savedCourses[1].depth = "deep"
    /\ savedCourses[2].id = 2
    /\ savedCourses[2].content.topic = <<"B">>

\* C12: the page opened with the link that handleShare made from a topic
\* that is not blank and a depth has that topic and that depth in its
\* fields, and its timer issues one course request, for that topic and that
\* depth; no other request is issued by the page.
C12_ShareRoundTrip ==
    /\ []((/\ pageUrl # <<>>
           /\ ~IsNull(sharedFrom)
           /\ ~IsBlank(Val(sharedFrom).topic)) =>
              /\ topic = Val(sharedFrom).topic
              /\ depth = Val(sharedFrom).depth
              /\ autoClick \in {"pending", "fired"}
              /\ autoClick = "pending" => issued = 0 /\ genCalls = <<>>
              /\ autoClick = "fired" => issued = 1)
    /\ [][(/\ autoClick = "pending"
           /\ autoClick' = "fired"
           /\ ~IsBlank(Val(sharedFrom).topic)) =>
              genCalls' = <<[kind |-> "course", stage |-> "call",
                             topic |-> Val(sharedFrom).topic,
                             depth |-> Val(sharedFrom).depth,
                             years |-> 0]>>
      ]_vars

\* The request made by the page opened with the link of topic "+&", depth
\* certified.
C12_Witness ==
    /\ autoClick = "fired"
    /\ pageUrl = ShareQuery(<<"+", "&">>, "certified")
    /\ genCalls = <<[kind |-> "course", stage |-> "call",
                     topic |-> <<"+", "&">>, depth |-> "certified",
                     years |-> 0]>>

\* The sources that are playing.
Playing(srcs) == {n \in 1..Len(srcs) : srcs[n].status = "playing"}

\* C13: handleNarration(idx) taken while currentAudio says lesson idx is
\* playing leaves no source playing, sets currentAudio to null and issues
\* no request; taken in any other state it issues one narration request
\* and starts or stops nothing; a request that succeeds with audio that
\* decodes stops the source still referenced, starts a new source for its
\* lesson and, in an App that is on screen, sets currentAudio to that
\* lesson, playing.
C13_NarrationToggle ==
    [][/\ \A idx \in 0..MaxLessonIdx :
             HandleNarration(idx) =>
                 IF currentAudio = Some([lessonIdx |-> idx, playing |-> TRUE])
                 THEN /\ Playing(sources') = {}
                      /\ currentAudio' = Null
                      /\ narrCalls' = narrCalls
                 ELSE /\ Len(narrCalls') = Len(narrCalls) + 1
                      /\ narrCalls'[Len(narrCalls')].idx = idx
                      /\ SubSeq(narrCalls', 1, Len(narrCalls)) = narrCalls
                      /\ sources' = sources
                      /\ currentAudio' = currentAudio
       /\ \A i \in 1..MaxNarrCalls, b \in NarrBuffers :
             (NarrationResolves(i, b) /\ ~DecodeThrows(b)) =>
                 /\ ~IsNull(audioSourceRef) =>
                        sources'[Val(audioSourceRef)].status # "playing"
                 /\ Len(sources') = Len(sources) + 1
                 /\ sources'[Len(sources')].status = "playing"
                 /\ sources'[Len(sources')].lessonIdx = narrCalls[i].idx
                 /\ audioSourceRef' = Some(Len(sources'))
                 /\ Mounted =>
                        currentAudio' =
                            Some([lessonIdx |-> narrCalls[i].idx,
                                  playing |-> TRUE])
                 /\ Len(narrCalls') = Len(narrCalls) - 1
      ]_vars

\* Lesson 1 was switched off by its button: its source was stopped, the
\* reference dropped, and no request is outstanding.
C13_Witness ==
    /\ Len(sources) = 1
    /\ sources[1].lessonIdx = 1
    /\ sources[1].status = "stopped"
    /\ IsNull(audioSourceRef)
    /\ IsNull(currentAudio)
    /\ narrCalls = <<>>

\* C14: whenever a narration source is playing, currentAudio is that
\* source's lesson with playing = true, and whenever no source is playing
\* and no 'ended' event is still to be delivered, currentAudio is null.
C14_AudioTracksPlayback ==
    /\ \A n \in Playing(sources) :
          currentAudio =
              Some([lessonIdx |-> sources[n].lessonIdx, playing |-> TRUE])
    /\ (\A n \in 1..Len(sources) : sources[n].status = "ended") =>
           IsNull(currentAudio)

\* C15: at most one narration source is playing, and the step that starts
\* a source leaves every source started before it stopped or ended.
C15_OneSourcePlaying ==
    /\ [](Cardinality(Playing(sources)) <= 1)
    /\ [][Len(sources') > Len(sources) =>
              /\ Len(sources') = Len(sources) + 1
              /\ Playing(sources') = {Len(sources')}
      ]_vars

\* Two requests were in flight at once; the source of the second response
\* plays, the source of the first was stopped by it.
C15_Witness ==
    /\ Len(sources) = 2
    /\ sources[1].status = "stopped"
    /\ sources[2].status = "playing"
    /\ sources[1].lessonIdx = 1
    /\ sources[2].lessonIdx = 0
    /\ narrCalls = <<>>
    /\ ~isAudioGenerating

\* C16: isGenerating is true exactly when a generateCourse or
\* generateCertifiedPathway call of handleGenerate or
\* handleGenerateCertified has been issued and has not settled.
C16_GeneratingIffInFlight ==
    isGenerating <=>
        \E i \in 1..Len(genCalls) : genCalls[i].stage = "call"

\* C17: an expansion that completes while a course with all its fields is
\* the current one leaves the number of lessons and every lesson's title,
\* content, keyTakeaways, sources and set of fields (but for
\* expandedContent) as they were, and the course it writes to is the one it
\* was requested for: same topic, same lesson title at its index.
C17_ExpansionKeepsLessons ==
    [][\A i \in 1..MaxExpandCalls, text \in AllExpandTexts :
           (/\ ExpandResolves(i, text)
            /\ ~IsNull(course)
            /\ Val(course).keys = CourseKeys) =>
               LET old == Val(course)
                   new == Val(course')
                   call == expandCalls[i]
               IN  /\ Len(new.lessons) = Len(old.lessons)
                   /\ \A k \in 1..Len(new.lessons) :
                          /\ k <= Len(old.lessons)
                          /\ new.lessons[k].title = old.lessons[k].title
                          /\ new.lessons[k].content = old.lessons[k].content
                          /\ new.lessons[k].keyTakeaways =
                                 old.lessons[k].keyTakeaways
                          /\ new.lessons[k].sources = old.lessons[k].sources
                          /\ new.lessons[k].keys \ {"expandedContent"} =
                                 old.lessons[k].keys \ {"expandedContent"}
                          /\ LessonKeys \subseteq new.lessons[k].keys
                   /\ old.topic = call.topic
                   /\ call.idx < Len(old.lessons)
                   /\ old.lessons[call.idx + 1].title = call.title
      ]_vars

\* C18: when no pathway request is outstanding, none of the requests since
\* the last failure was rejected, and a pathway with its fields is shown,
\* that pathway is the answer to the request issued last (the one for
\* lastAsked years).
C18_LatestPathwayShown ==
    (/\ \A i \in 1..Len(genCalls) : genCalls[i].kind # "pathway"
     /\ ~IsNull(lastAsked)
     /\ ~IsNull(certifiedPathway)
     /\ Val(certifiedPathway).keys = PathwayKeys) =>
        Val(certifiedPathway).duration = Val(lastAsked)

\* Course c is course saved, up to expandedContent added to its lessons.
SameButExpanded(c, saved) ==
    /\ c.keys = saved.keys
    /\ c.topic = saved.topic
    /\ c.summary = saved.summary
    /\ Len(c.lessons) = Len(saved.lessons)
    /\ \A k \in 1..Len(saved.lessons) :
          /\ k <= Len(c.lessons)
          /\ c.lessons[k].title = saved.lessons[k].title
          /\ c.lessons[k].content = saved.lessons[k].content
          /\ c.lessons[k].keyTakeaways = saved.lessons[k].keyTakeaways
          /\ c.lessons[k].sources = saved.lessons[k].sources
          /\ c.lessons[k].keys \ {"expandedContent"} =
                 saved.lessons[k].keys \ {"expandedContent"}

\* C19: from handleLoadSaved(saved) until the next start of a generation,
\* load of a saved course or home click, state.course of an App that is on
\* screen is saved.content up to expandedContent.
C19_LoadedCourseStays ==
    (~IsNull(loadedCourse) /\ Mounted) =>
        /\ ~IsNull(course)
        /\ SameButExpanded(Val(course), Val(loadedCourse))

\* C20: with a current course that has its fields, completedLessons has no
\* index twice, every index in it is one of 0 .. number of lessons - 1, and
\* the progress percentage is between 0 and 100.
C20_CompletedWithinCourse ==
    (~IsNull(course) /\ Val(course).keys = CourseKeys) =>
        /\ \A j, k \in 1..Len(completedLessons) :
               completedLessons[j] = completedLessons[k] => j = k
        /\ \A k \in 1..Len(completedLessons) :
               completedLessons[k] \in 0..(Len(Val(course).lessons) - 1)
        /\ ~IsNull(ProgressPercentage)
        /\ Val(ProgressPercentage) \in 0..100

\* No two neighbours of a message list have the same role.
RolesAlternate(msgs) ==
    \A k \in 1..(Len(msgs) - 1) : msgs[k].role # msgs[k + 1].role

\* C21: whenever no chat request is in flight, chatMessages is empty or
\* runs user, model, user, model, ... from a user message to a model
\* message, and no history passed to chatWithGemini has two neighbours of
\* the same role.
C21_ChatRolesAlternate ==
    /\ chatCalls = <<>> =>
           \/ chatMessages = <<>>
           \/ /\ RolesAlternate(chatMessages)
              /\ chatMessages[1].role = "user"
              /\ chatMessages[Len(chatMessages)].role = "model"
    /\ \A i \in 1..Len(chatCalls) : RolesAlternate(chatCalls[i].history)

\* A course object with the fields the course view reads.
HasCourseShape(c) ==
    /\ CourseKeys \subseteq c.keys
    /\ \A k \in 1..Len(c.lessons) :
          {"title", "content", "keyTakeaways"} \subseteq c.lessons[k].keys

\* C22: the course that a successful handleGenerate stores has a topic, a
\* summary and a lessons list whose lessons all have title, content and
\* keyTakeaways, whatever text the backend answered with.
C22_GeneratedCourseShape ==
    [][\A i \in 1..MaxGenCalls, text \in CourseTexts :
           GenerateResolves(i, text) =>
               /\ ~IsNull(course')
               /\ HasCourseShape(Val(course'))
      ]_vars
====
